---- MODULE Spec2Model ----
(***************************************************************************)
(* Boxing Match Statistics Analyzer (src/app.py).                          *)
(*                                                                         *)
(* Numbers.  Punch counts are naturals.  A percentage that the code keeps  *)
(* to one decimal (punch_accuracy_pct, sig_punch_accuracy_pct, the column  *)
(* "Ring Control %") is held as an integer number of tenths of a percent:  *)
(* 505 stands for 50.5.  None is the empty sequence and a value that may   *)
(* be None is a sequence of at most one element.  A missing Boxer cell of  *)
(* a CSV file (pandas reads it as NaN) is the value NaN.                   *)
(***************************************************************************)
EXTENDS Integers, Sequences, FiniteSets, TLC

(* ------------------------------ bounds -------------------------------- *)

\* longest record sequence handed to the analysis functions on their own
MaxRecs == 3

\* most rows of a CSV file of the application
MaxRows == 3

\* highest round number in a CSV file of the application
MaxRound == 2

\* generate_boxing_data: the largest num_rounds, the length of the tape of
\* random outcomes, and the number of the levels of an outcome above the
\* lowest
MaxGenRounds == 2

MaxTape == 5

DrawLevels == 2

(* --------------------------- value universe --------------------------- *)

None == << >>

Some(x) == << x >>

NaN == "NaN"

\* The competitor names of src/app.py lines 177 and 183, in the order
\* Python's sorted() gives them (code point order of the strings).
BoxerNames == << "Gervonta Davis", "Hector Luis Garcia", "Lightning Lewis", "Thunder Thompson" >>

Names == { BoxerNames[i] : i \in 1..Len(BoxerNames) }

\* position of a name in sorted order
Rank(n) == CHOOSE i \in 1..Len(BoxerNames) : BoxerNames[i] = n

\* columns that calculate_match_aggregates sums
SumColumns == { "Punches Thrown", "Punches Landed", "Significant Punches Thrown",
                "Significant Punches Landed", "Head Punches Landed", "Body Punches Landed" }

required_cols == { "Round", "Boxer", "Punches Thrown", "Punches Landed",
                   "Significant Punches Thrown", "Significant Punches Landed" }

optional_cols == { "Ring Control %", "Head Punches Landed", "Body Punches Landed",
                   "Jabs Landed", "Power Punches Landed" }

Columns == required_cols \cup optional_cols

\* one row of a data frame: st gives the numeric columns
Row(round, boxer, st) ==
    [ c \in Columns |-> IF c = "Round" THEN round ELSE IF c = "Boxer" THEN boxer ELSE st[c] ]

Stat(thrown, landed, sigThrown, sigLanded, head, body, ring) ==
    [ c \in Columns \ {"Round", "Boxer"} |->
        CASE c = "Punches Thrown" -> thrown
          [] c = "Punches Landed" -> landed
          [] c = "Significant Punches Thrown" -> sigThrown
          [] c = "Significant Punches Landed" -> sigLanded
          [] c = "Head Punches Landed" -> head
          [] c = "Body Punches Landed" -> body
          [] c = "Ring Control %" -> ring
          [] c = "Power Punches Landed" -> sigLanded
          [] c = "Jabs Landed" -> IF landed >= sigLanded THEN landed - sigLanded ELSE 0 ]

(* ------------------------ pandas helpers ------------------------------ *)

\* mutant of ColumnSum: the aggregation "first" in place of "sum"
ColumnFirst(df, col) ==
    IF df = << >> THEN 0 ELSE Head(df)[col]

\* Series.sum(): the column added up row by row, in df's order
RECURSIVE ColumnSum(_, _)
ColumnSum(df, col) ==
    IF df = << >> THEN 0 ELSE Head(df)[col] + ColumnSum(Tail(df), col)

\* the distinct values of a column
ColumnValues(df, col) == { df[i][col] : i \in 1..Len(df) }

\* a set of names as a list in sorted order
RECURSIVE SortedNames(_)
SortedNames(S) ==
    IF S = {} THEN << >>
    ELSE LET m == CHOOSE x \in S : \A y \in S : Rank(x) <= Rank(y)
         IN << m >> \o SortedNames(S \ {m})

\* mutant of AccuracyPct: the quotient cut off after one decimal, not rounded
AccuracyPctTruncated(landed, thrown) ==
    (landed * 1000) \div (IF thrown = 0 THEN 1 ELSE thrown)

\* round(100 * landed / thrown.replace(0, 1), 1), in tenths of a percent;
\* a tie between two tenths goes to the even one, as numpy's round does
AccuracyPct(landed, thrown) ==
    LET d == IF thrown = 0 THEN 1 ELSE thrown
        n == landed * 1000
        q == n \div d
        r == n % d
    IN IF 2 * r < d THEN q
       ELSE IF 2 * r > d THEN q + 1
       ELSE IF q % 2 = 0 THEN q ELSE q + 1

(* -------------------- calculate_match_aggregates ----------------------- *)

\* one row of df_agg: the group of boxer in df_match
AggRow(df_match, boxer) ==
    LET g == SelectSeq(df_match, LAMBDA r : r["Boxer"] = boxer)
        thrown == ColumnSum(g, "Punches Thrown")
        landed == ColumnSum(g, "Punches Landed")
        sigThrown == ColumnSum(g, "Significant Punches Thrown")
        sigLanded == ColumnSum(g, "Significant Punches Landed")
    IN [ Boxer |-> boxer,
         total_punches_thrown |-> thrown,
         total_punches_landed |-> landed,
         punch_accuracy_pct |-> AccuracyPct(landed, thrown),
         total_sig_punches_thrown |-> sigThrown,
         total_sig_punches_landed |-> sigLanded,
         sig_punch_accuracy_pct |-> AccuracyPct(sigLanded, sigThrown),
         total_head_punches_landed |-> ColumnSum(g, "Head Punches Landed"),
         total_body_punches_landed |-> ColumnSum(g, "Body Punches Landed"),
         \* the mean, kept exact as sum over count
         avg_ring_control |-> [ sum |-> ColumnSum(g, "Ring Control %"), count |-> Len(g) ] ]

\* groupby("Boxer"): one group per distinct key, keys sorted, NaN keys dropped
GroupKeys(df_match) == SortedNames(ColumnValues(df_match, "Boxer") \ {NaN})

\* mutant of StatsOf: a default all-zero row where there is no group
StatsOfOrZeroRow(df_agg, boxer) ==
    LET hit == SelectSeq(df_agg, LAMBDA r : boxer # NaN /\ r.Boxer = boxer)
    IN IF hit = << >>
       THEN Some([ Boxer |-> boxer, total_punches_thrown |-> 0, total_punches_landed |-> 0,
                   punch_accuracy_pct |-> 0, total_sig_punches_thrown |-> 0,
                   total_sig_punches_landed |-> 0, sig_punch_accuracy_pct |-> 0,
                   total_head_punches_landed |-> 0, total_body_punches_landed |-> 0,
                   avg_ring_control |-> [ sum |-> 0, count |-> 0 ] ])
       ELSE Some(Head(hit))

\* df_agg[df_agg["Boxer"] == boxer].iloc[0] if that is not empty, else None
StatsOf(df_agg, boxer) ==
    LET hit == SelectSeq(df_agg, LAMBDA r : boxer # NaN /\ r.Boxer = boxer)
    IN IF hit = << >> THEN None ELSE Some(Head(hit))

\* mutant of calculate_match_aggregates: the table cut down to the two
\* requested boxers
AggregatesOfPairOnly(df_match, boxer_a, boxer_b) ==
    LET keys == SelectSeq(GroupKeys(df_match), LAMBDA k : k \in {boxer_a, boxer_b})
        df_agg == [ i \in 1..Len(keys) |-> AggRow(df_match, keys[i]) ]
    IN [ stats_a |-> StatsOf(df_agg, boxer_a),
         stats_b |-> StatsOf(df_agg, boxer_b),
         df_agg |-> df_agg ]

calculate_match_aggregates(df_match, boxer_a, boxer_b) ==
    LET keys == GroupKeys(df_match)
        df_agg == [ i \in 1..Len(keys) |-> AggRow(df_match, keys[i]) ]
    IN [ stats_a |-> StatsOf(df_agg, boxer_a),
         stats_b |-> StatsOf(df_agg, boxer_b),
         df_agg |-> df_agg ]

(* ------------- Overall Match Analysis (main script) ------------------- *)

\* the four st.columns of st.metric values; a delta is stats_b minus stats_a
Metrics(sa, sb) ==
    [ sig_landed_a |-> sa.total_sig_punches_landed,
      sig_landed_b |-> sb.total_sig_punches_landed,
      sig_landed_delta |-> sb.total_sig_punches_landed - sa.total_sig_punches_landed,
      accuracy_a |-> sa.punch_accuracy_pct,
      accuracy_b |-> sb.punch_accuracy_pct,
      accuracy_delta |-> sb.punch_accuracy_pct - sa.punch_accuracy_pct,
      sig_accuracy_a |-> sa.sig_punch_accuracy_pct,
      sig_accuracy_b |-> sb.sig_punch_accuracy_pct,
      sig_accuracy_delta |-> sb.sig_punch_accuracy_pct - sa.sig_punch_accuracy_pct,
      head_landed_a |-> sa.total_head_punches_landed,
      head_landed_b |-> sb.total_head_punches_landed,
      head_landed_delta |-> sb.total_head_punches_landed - sa.total_head_punches_landed ]

\* mutant of Judgment: equal totals decided by the better accuracy
JudgmentByAccuracyOnTie(sa, sb) ==
    LET a_wins == \/ sa.total_sig_punches_landed > sb.total_sig_punches_landed
                  \/ /\ sa.total_sig_punches_landed = sb.total_sig_punches_landed
                     /\ sa.punch_accuracy_pct > sb.punch_accuracy_pct
    IN IF /\ sa.total_sig_punches_landed = sb.total_sig_punches_landed
          /\ sa.punch_accuracy_pct = sb.punch_accuracy_pct
       THEN [ kind |-> "draw", winner |-> None, loser |-> None ]
       ELSE [ kind |-> "winner",
              winner |-> Some(IF a_wins THEN sa.Boxer ELSE sb.Boxer),
              loser |-> Some(IF a_wins THEN sb.Boxer ELSE sa.Boxer) ]

\* mutant of Judgment: the variables winner and loser announced without the
\* test for equal totals
JudgmentWithoutDraw(sa, sb) ==
    [ kind |-> "winner",
      winner |-> Some(IF sa.total_sig_punches_landed > sb.total_sig_punches_landed
                      THEN sa.Boxer ELSE sb.Boxer),
      loser |-> Some(IF sa.total_sig_punches_landed > sb.total_sig_punches_landed
                     THEN sb.Boxer ELSE sa.Boxer) ]

\* the winner and loser judgment: what st.info or st.success announces
Judgment(sa, sb) ==
    LET winner == IF sa.total_sig_punches_landed > sb.total_sig_punches_landed
                  THEN sa.Boxer ELSE sb.Boxer
        loser == IF sa.total_sig_punches_landed > sb.total_sig_punches_landed
                 THEN sb.Boxer ELSE sa.Boxer
    IN IF sa.total_sig_punches_landed = sb.total_sig_punches_landed
       THEN [ kind |-> "draw", winner |-> None, loser |-> None ]
       ELSE [ kind |-> "winner", winner |-> Some(winner), loser |-> Some(loser) ]

\* what the section renders when nothing can be calculated
NoAnalysis(notice) ==
    [ notice |-> notice, metrics |-> None, table |-> None, judgment |-> None ]

\* "if stats_a is not None and stats_b is not None" and its else branch
Analysis(res) ==
    IF res.stats_a # None /\ res.stats_b # None
    THEN [ notice |-> "none",
           metrics |-> Some(Metrics(res.stats_a[1], res.stats_b[1])),
           table |-> Some(res.df_agg),
           judgment |-> Some(Judgment(res.stats_a[1], res.stats_b[1])) ]
    ELSE NoAnalysis("Could not calculate overall match statistics")

\* the section "Overall Match Analysis" for the frame and the pair given
OverallMatchAnalysis(df_filtered, boxer_a, boxer_b) ==
    Analysis(calculate_match_aggregates(df_filtered, boxer_a, boxer_b))

(* ------------------------------ load_data ----------------------------- *)

\* a CSV file on disk: whether it exists, its header, and its rows (a row
\* has a meaning only in the columns of the header)
File(exists, columns, rows) ==
    [ exists |-> exists, parses |-> TRUE, columns |-> columns, rows |-> rows ]

NoFile == File(FALSE, {}, << >>)

\* a file that pd.read_csv cannot parse (it raises something other than
\* FileNotFoundError)
UnreadableFile == [ File(TRUE, {}, << >>) EXCEPT !.parses = FALSE ]

\* a message of st.error: its wording and the columns it lists
Message(text, columns) == [ text |-> text, columns |-> columns ]

NoMessage == Message("none", {})

\* mutant of load_data: a missing required column filled with 0 like an
\* optional one
load_data_filling_required(file) ==
    IF ~file.exists
    THEN [ df |-> None, error |-> Message("Error: The file was not found", {}) ]
    ELSE IF ~file.parses
    THEN [ df |-> None, error |-> Message("Error loading data", {}) ]
    ELSE [ df |-> Some([ i \in 1..Len(file.rows) |->
                          [ c \in Columns |-> IF c \in file.columns THEN file.rows[i][c] ELSE 0 ] ]),
           error |-> NoMessage ]

\* load_data: the frame (optional columns that are missing filled with 0) or
\* None, and the st.error it shows
load_data(file) ==
    IF ~file.exists
    THEN [ df |-> None, error |-> Message("Error: The file was not found", {}) ]
    ELSE IF ~file.parses
    THEN [ df |-> None, error |-> Message("Error loading data", {}) ]
    ELSE IF ~(required_cols \subseteq file.columns)
    THEN [ df |-> None,
           error |-> Message("CSV file missing required columns. Need at least", required_cols) ]
    ELSE [ df |-> Some([ i \in 1..Len(file.rows) |->
                          [ c \in Columns |-> IF c \in file.columns THEN file.rows[i][c] ELSE 0 ] ]),
           error |-> NoMessage ]

(* --------------------------- main script ------------------------------ *)

\* the sentinel "All Rounds" of the round slider
All_Rounds == 0

Individual == "Individual Fight Analysis"

Comparison == "Fight Comparison"

\* the keys of available_datasets that the model loads, in the dict's order
available_datasets == << "Sample Data (Generated)", "Real Fight: Davis vs Garcia (Jan 2023)" >>

DatasetKeys == { available_datasets[i] : i \in 1..Len(available_datasets) }

comparison_metrics == << "Combined Total Punches Thrown", "Combined Total Punches Landed",
                         "Combined Sig. Punches Thrown", "Combined Sig. Punches Landed",
                         "Overall Punch Accuracy %", "Overall Sig. Punch Accuracy %" >>

\* boxer_a_default_name, boxer_b_default_name of a dataset key
DefaultNames(selected_dataset_key) ==
    CASE selected_dataset_key = "Real Fight: Davis vs Garcia (Jan 2023)" ->
           << "Gervonta Davis", "Hector Luis Garcia" >>
      [] selected_dataset_key = "Real Fight: Davis vs Roach (Mar 2025)" ->
           << "Gervonta Davis", "Lamont Roach" >>
      [] selected_dataset_key = "Real Fight: Lopez vs Barboza (May 2025)" ->
           << "Teofimo Lopez", "Arnold Barboza Jr" >>
      [] selected_dataset_key = "Real Fight: Garcia vs Romero (May 2025)" ->
           << "Ryan Garcia", "Rolando Romero" >>
      [] selected_dataset_key = "Real Fight: Canelo vs Scull (May 2025)" ->
           << "Canelo Alvarez", "William Scull" >>
      [] selected_dataset_key = "Real Fight: Eubank Jr. vs Benn (Apr 2025)" ->
           << "Chris Eubank Jr.", "Conor Benn" >>
      [] OTHER -> << "Lightning Lewis", "Thunder Thompson" >>

InSeq(x, s) == \E i \in 1..Len(s) : s[i] = x

\* list.index(x): the position of x, counted from 0
IndexOf(s, x) == (CHOOSE i \in 1..Len(s) : s[i] = x) - 1

\* the element of a list at a position counted from 0
At(s, i) == s[i + 1]

\* Series.unique(): the distinct values in order of first appearance
RECURSIVE Unique(_, _)
Unique(df, col) ==
    IF df = << >> THEN << >>
    ELSE LET front == Unique(SubSeq(df, 1, Len(df) - 1), col)
             v == df[Len(df)][col]
         IN IF InSeq(v, front) THEN front ELSE Append(front, v)

\* a set of integers as a list in ascending order
\* mutant of SortedInts: the largest first
RECURSIVE SortedIntsDescending(_)
SortedIntsDescending(S) ==
    IF S = {} THEN << >>
    ELSE LET m == CHOOSE x \in S : \A y \in S : x >= y
         IN << m >> \o SortedIntsDescending(S \ {m})

RECURSIVE SortedInts(_)
SortedInts(S) ==
    IF S = {} THEN << >>
    ELSE LET m == CHOOSE x \in S : \A y \in S : x <= y
         IN << m >> \o SortedInts(S \ {m})

\* the second default: 1 if boxer_a_default_index == 0 and len(boxers) > 1 else 0
OtherIndex(boxers, boxer_a_default_index) ==
    IF boxer_a_default_index = 0 /\ Len(boxers) > 1 THEN 1 ELSE 0

boxer_a_default_index(boxers, key) ==
    IF InSeq(DefaultNames(key)[1], boxers) THEN IndexOf(boxers, DefaultNames(key)[1]) ELSE 0

\* mutant of boxer_b_default_index: the registered name of boxer B not looked up
boxer_b_default_index_unregistered(boxers, key) ==
    OtherIndex(boxers, boxer_a_default_index(boxers, key))

boxer_b_default_index(boxers, key) ==
    LET a_index == boxer_a_default_index(boxers, key)
        potential_b_index == IF InSeq(DefaultNames(key)[2], boxers)
                             THEN IndexOf(boxers, DefaultNames(key)[2])
                             ELSE OtherIndex(boxers, a_index)
    IN IF potential_b_index # a_index THEN potential_b_index ELSE OtherIndex(boxers, a_index)

\* mutant of boxer_b_options: boxer A left among the options
boxer_b_options_unfiltered(boxers, boxer_a) == boxers

\* boxer_b_options = [b for b in boxers if b != boxer_a]
boxer_b_options(boxers, boxer_a) == SelectSeq(boxers, LAMBDA b : b # boxer_a)

boxer_b_default_value(boxers, boxer_a, key) ==
    LET options == boxer_b_options(boxers, boxer_a)
        b_index == boxer_b_default_index(boxers, key)
    IN IF b_index < Len(boxers) /\ InSeq(At(boxers, b_index), options)
       THEN At(boxers, b_index) ELSE options[1]

\* df_filtered: the rows of the two boxers, sorted by Round and then Boxer
\* (no two rows of a file share both)
RECURSIVE SortByRoundBoxer(_)
SortByRoundBoxer(rows) ==
    IF rows = {} THEN << >>
    ELSE LET m == CHOOSE x \in rows : \A y \in rows :
                    \/ x["Round"] < y["Round"]
                    \/ x["Round"] = y["Round"] /\ Rank(x["Boxer"]) <= Rank(y["Boxer"])
         IN << m >> \o SortByRoundBoxer(rows \ {m})

df_filtered_of(df, boxer_a, boxer_b) ==
    SortByRoundBoxer({ df[i] : i \in { j \in 1..Len(df) : df[j]["Boxer"] \in {boxer_a, boxer_b} } })

\* mutant of RoundView: the charts of a round drawn without the test
\* "if not df_round_data.empty"
RoundViewUnchecked(df_filtered, selected_round) ==
    IF selected_round = All_Rounds
    THEN [ kind |-> "Match Trends", df |-> df_filtered ]
    ELSE [ kind |-> "Statistics for Round",
           df |-> SelectSeq(df_filtered, LAMBDA r : r["Round"] = selected_round) ]

\* the section "Round-by-Round Visualizations"
RoundView(df_filtered, selected_round) ==
    IF selected_round = All_Rounds
    THEN [ kind |-> "Match Trends", df |-> df_filtered ]
    ELSE LET df_round_data == SelectSeq(df_filtered, LAMBDA r : r["Round"] = selected_round)
         IN IF df_round_data # << >>
            THEN [ kind |-> "Statistics for Round", df |-> df_round_data ]
            ELSE [ kind |-> "No data available for Round", df |-> df_round_data ]

\* the header "Raw Round Data": the frame st.dataframe shows
RawRoundData(df_filtered, selected_round) ==
    IF selected_round = All_Rounds THEN df_filtered
    ELSE SelectSeq(df_filtered, LAMBDA r : r["Round"] = selected_round)

(* ------------------------- the plot functions ------------------------- *)

\* whether a frame has a column (a frame without rows is one made by
\* load_data, which has them all)
HasColumn(df, col) == df = << >> \/ col \in DOMAIN df[1]

\* df[df["Boxer"].isin([boxer_a, boxer_b])]
OfPair(df, boxer_a, boxer_b) == SelectSeq(df, LAMBDA r : r["Boxer"] \in { boxer_a, boxer_b })

\* df_round['Round'].iloc[0] of the titles, which raises IndexError on a
\* frame without rows
TitleRound(df_round) == IF df_round = << >> THEN "IndexError" ELSE df_round[1]["Round"]

\* a figure: what it is, its title, the values it draws and the st.caption
\* shown with it
Figure(kind, title, round, data, caption) ==
    [ kind |-> kind, title |-> title, round |-> round, data |-> data, caption |-> caption ]

plot_round_punch_stats(df_round, boxer_a, boxer_b) ==
    LET df_plot == OfPair(df_round, boxer_a, boxer_b)
    IN Figure("bar", "Punches Thrown vs Landed", TitleRound(df_round),
              [ i \in 1..Len(df_plot) |->
                  << df_plot[i]["Boxer"], df_plot[i]["Punches Thrown"], df_plot[i]["Punches Landed"] >> ],
              "none")

plot_round_sig_punches(df_round, boxer_a, boxer_b) ==
    LET df_plot == OfPair(df_round, boxer_a, boxer_b)
    IN IF \/ ~HasColumn(df_plot, "Head Punches Landed")
          \/ ~HasColumn(df_plot, "Body Punches Landed")
          \/ /\ ColumnSum(df_plot, "Head Punches Landed") = 0
             /\ ColumnSum(df_plot, "Body Punches Landed") = 0
       THEN Figure("bar", "Significant Punches Landed", TitleRound(df_round),
                   [ i \in 1..Len(df_plot) |->
                       << df_plot[i]["Boxer"], df_plot[i]["Significant Punches Landed"] >> ],
                   "Note: Head/Body punch breakdown not available for this dataset.")
       ELSE Figure("stacked bar", "Significant Punches Landed (Head vs Body)", TitleRound(df_round),
                   [ i \in 1..Len(df_plot) |->
                       << df_plot[i]["Boxer"], df_plot[i]["Head Punches Landed"],
                          df_plot[i]["Body Punches Landed"] >> ],
                   "none")

plot_round_ring_control(df_round, boxer_a, boxer_b) ==
    LET df_plot == OfPair(df_round, boxer_a, boxer_b)
    IN IF ~HasColumn(df_plot, "Ring Control %") \/ ColumnSum(df_plot, "Ring Control %") = 0
       THEN Figure("empty", "Ring Control Data Not Available", TitleRound(df_round), << >>, "none")
       ELSE Figure("pie", "Ring Control Percentage", TitleRound(df_round),
                   [ i \in 1..Len(df_plot) |-> << df_plot[i]["Boxer"], df_plot[i]["Ring Control %"] >> ],
                   "none")

plot_total_punch_trends(df_match, boxer_a, boxer_b) ==
    LET df_plot == OfPair(df_match, boxer_a, boxer_b)
    IN Figure("line", "Total Punches Landed per Round", All_Rounds,
              [ i \in 1..Len(df_plot) |->
                  << df_plot[i]["Round"], df_plot[i]["Boxer"], df_plot[i]["Punches Landed"] >> ],
              "none")

plot_total_sig_punch_trends(df_match, boxer_a, boxer_b) ==
    LET df_plot == OfPair(df_match, boxer_a, boxer_b)
    IN Figure("line", "Significant Punches Landed per Round", All_Rounds,
              [ i \in 1..Len(df_plot) |->
                  << df_plot[i]["Round"], df_plot[i]["Boxer"],
                     df_plot[i]["Significant Punches Landed"] >> ],
              "none")

\* mutant of plot_total_ring_control_trends: the column looked for, its sum not
plot_total_ring_control_trends_of_any_sum(df_match, boxer_a, boxer_b) ==
    LET df_plot == SelectSeq(df_match, LAMBDA r : r["Boxer"] = boxer_a)
    IN IF ~HasColumn(df_match, "Ring Control %")
       THEN Figure("empty", "Ring Control Percentage per Round - Data Not Available", All_Rounds,
                   << >>, "none")
       ELSE Figure("line", "Ring Control Percentage per Round", All_Rounds,
                   [ i \in 1..Len(df_plot) |-> << df_plot[i]["Round"], df_plot[i]["Ring Control %"] >> ],
                   "none")

\* the sum is that of df_match, the line that of boxer_a
plot_total_ring_control_trends(df_match, boxer_a, boxer_b) ==
    LET df_plot == SelectSeq(df_match, LAMBDA r : r["Boxer"] = boxer_a)
    IN IF ~HasColumn(df_match, "Ring Control %") \/ ColumnSum(df_match, "Ring Control %") = 0
       THEN Figure("empty", "Ring Control Percentage per Round - Data Not Available", All_Rounds,
                   << >>, "none")
       ELSE Figure("line", "Ring Control Percentage per Round", All_Rounds,
                   [ i \in 1..Len(df_plot) |-> << df_plot[i]["Round"], df_plot[i]["Ring Control %"] >> ],
                   "none")

\* the st.plotly_chart calls of the section "Round-by-Round Visualizations",
\* round_view being what RoundView made of the selection
Charts(round_view, boxer_a, boxer_b) ==
    IF round_view.kind = "Match Trends"
    THEN << plot_total_punch_trends(round_view.df, boxer_a, boxer_b),
            plot_total_ring_control_trends(round_view.df, boxer_a, boxer_b),
            plot_total_sig_punch_trends(round_view.df, boxer_a, boxer_b) >>
    ELSE IF round_view.kind = "Statistics for Round"
    THEN << plot_round_punch_stats(round_view.df, boxer_a, boxer_b),
            plot_round_ring_control(round_view.df, boxer_a, boxer_b),
            plot_round_sig_punches(round_view.df, boxer_a, boxer_b) >>
    ELSE << >>

\* a call of calculate_match_aggregates made by a script run
Call(df_match, a, b) == [ df_match |-> df_match, boxer_a |-> a, boxer_b |-> b ]

\* what a run renders when it stops before the analysis: errors are the
\* st.error messages of load_data, sidebar the st.sidebar.warning
Blank(mode, errors, notice) ==
    [ mode |-> mode, errors |-> errors, notice |-> notice, sidebar |-> "none",
      exception |-> FALSE,
      boxers |-> << >>, boxer_b_options |-> << >>, round_options |-> << >>,
      raw |-> << >>, round_view |-> [ kind |-> "none", df |-> << >> ], charts |-> << >>,
      calls |-> << >>, analysis |-> NoAnalysis("none"), all_fight_data |-> << >> ]

\* a value a widget holds: the state it kept if that is still one of its
\* options, otherwise its default
WidgetValue(state, options, default) ==
    IF state # None /\ InSeq(state[1], options) THEN state[1] ELSE default

\* the values of the script's variables boxer_a, boxer_b, selected_round
Selected(a, b, round) == [ boxer_a |-> a, boxer_b |-> b, selected_round |-> round ]

\* mutant of PairPage: the overall analysis made of the rows of the round
\* chosen instead of df_filtered
PairPageOfRound(df_filtered, boxers, options, a, b, rounds, round) ==
    [ sel |-> Selected(Some(a), Some(b), Some(round)),
      view |-> [ mode |-> Individual, errors |-> << >>, notice |-> "none",
                 sidebar |-> "none", exception |-> FALSE,
                 boxers |-> boxers, boxer_b_options |-> options,
                 round_options |-> << All_Rounds >> \o rounds,
                 raw |-> RawRoundData(df_filtered, round),
                 round_view |-> RoundView(df_filtered, round),
                 charts |-> Charts(RoundView(df_filtered, round), a, b),
                 calls |-> << Call(RawRoundData(df_filtered, round), a, b) >>,
                 analysis |-> OverallMatchAnalysis(RawRoundData(df_filtered, round), a, b),
                 all_fight_data |-> << >> ] ]

\* The page of a pair of boxers: raw data, round view and overall analysis.
PairPage(df_filtered, boxers, options, a, b, rounds, round) ==
    [ sel |-> Selected(Some(a), Some(b), Some(round)),
      view |-> [ mode |-> Individual, errors |-> << >>, notice |-> "none",
                 sidebar |-> "none", exception |-> FALSE,
                 boxers |-> boxers, boxer_b_options |-> options,
                 round_options |-> << All_Rounds >> \o rounds,
                 raw |-> RawRoundData(df_filtered, round),
                 round_view |-> RoundView(df_filtered, round),
                 charts |-> Charts(RoundView(df_filtered, round), a, b),
                 calls |-> << Call(df_filtered, a, b) >>,
                 analysis |-> OverallMatchAnalysis(df_filtered, a, b),
                 all_fight_data |-> << >> ] ]

\* rounds = sorted(df_filtered["Round"].unique()) and the round slider, whose
\* state is wr
RoundsPage(df_filtered, boxers, options, a, b, rounds, wr) ==
    PairPage(df_filtered, boxers, options, a, b, rounds, WidgetValue(wr, rounds, All_Rounds))

FilteredPage(df_filtered, boxers, options, a, b, wr) ==
    RoundsPage(df_filtered, boxers, options, a, b,
               SortedInts(ColumnValues(df_filtered, "Round")), wr)

\* the selectbox "Select Boxer B", whose state is wb, and "if boxer_a and boxer_b"
BoxerBPage(df, boxers, key, a, options, wb, wr) ==
    IF options = << >>
    THEN [ sel |-> Selected(Some(a), None, None),
           view |-> [ Blank(Individual, << >>, "Select two boxers from the sidebar")
                        EXCEPT !.boxers = boxers,
                               !.sidebar = "Only one boxer found in the data" ] ]
    ELSE FilteredPage(
           df_filtered_of(df, a, WidgetValue(wb, options, boxer_b_default_value(boxers, a, key))),
           boxers, options, a,
           WidgetValue(wb, options, boxer_b_default_value(boxers, a, key)), wr)

\* the selectbox "Select Boxer A", whose state is wa
BoxerAPage(df, boxers, key, a, wb, wr) ==
    BoxerBPage(df, boxers, key, a, boxer_b_options(boxers, a), wb, wr)

\* "if len(boxers) >= 2" and its else branch
BoxersPage(df, boxers, key, wa, wb, wr) ==
    IF Len(boxers) < 2
    THEN [ sel |-> Selected(IF boxers # << >> THEN Some(boxers[1]) ELSE None, None, None),
           view |-> [ Blank(Individual, << >>, "Select two boxers from the sidebar")
                        EXCEPT !.boxers = boxers,
                               !.sidebar = "Not enough boxers in the data for comparison" ] ]
    ELSE BoxerAPage(df, boxers, key,
                    WidgetValue(wa, boxers, At(boxers, boxer_a_default_index(boxers, key))),
                    wb, wr)

\* boxers = sorted(df["Boxer"].unique()), found being the distinct values:
\* sorted() raises TypeError when it compares the float NaN with a str
SortedPage(df, found, key, wa, wb, wr) ==
    IF NaN \in found /\ found # {NaN}
    THEN [ sel |-> Selected(None, None, None),
           view |-> [ Blank(Individual, << >>, "none") EXCEPT !.exception = TRUE ] ]
    ELSE BoxersPage(df, IF found = {NaN} THEN << NaN >> ELSE SortedNames(found), key, wa, wb, wr)

\* "if df is not None" and its else branch
LoadedPage(loaded, key, wa, wb, wr) ==
    IF loaded.df = None
    THEN [ sel |-> Selected(None, None, None),
           view |-> Blank(Individual, << loaded.error >>, "Please select a valid data source") ]
    ELSE SortedPage(loaded.df[1], ColumnValues(loaded.df[1], "Boxer"), key, wa, wb, wr)

\* One run of the script in the view "Individual Fight Analysis".  wa, wb, wr
\* are the states of the two boxer selectboxes and of the round slider (None
\* for a widget without state).
IndividualRun(file, key, wa, wb, wr) == LoadedPage(load_data(file), key, wa, wb, wr)

\* what one fight of the loop of "Fight Comparison" leaves behind: the
\* st.error of load_data, the call of calculate_match_aggregates if one is
\* made, and the entry put into all_fight_data if one is
FightResult(errors, calls, entries) == [ errors |-> errors, calls |-> calls, entries |-> entries ]

\* all_fight_data[fight_name]
FightEntry(fight_name, stats1, stats2) ==
    [ fight_name |-> fight_name,
      stats1 |-> stats1, stats2 |-> stats2,
      combined_thrown |-> stats1.total_punches_thrown + stats2.total_punches_thrown,
      combined_landed |-> stats1.total_punches_landed + stats2.total_punches_landed,
      combined_sig_thrown |-> stats1.total_sig_punches_thrown + stats2.total_sig_punches_thrown,
      combined_sig_landed |-> stats1.total_sig_punches_landed + stats2.total_sig_punches_landed,
      overall_accuracy |-> AccuracyPct(stats1.total_punches_landed + stats2.total_punches_landed,
                                       stats1.total_punches_thrown + stats2.total_punches_thrown),
      overall_sig_accuracy |-> AccuracyPct(stats1.total_sig_punches_landed + stats2.total_sig_punches_landed,
                                           stats1.total_sig_punches_thrown + stats2.total_sig_punches_thrown) ]

\* "if stats1 is not None and stats2 is not None"
FightStats(fight_name, call, res) ==
    IF res.stats_a = None \/ res.stats_b = None
    THEN FightResult(<< >>, << call >>, << >>)
    ELSE FightResult(<< >>, << call >>, << FightEntry(fight_name, res.stats_a[1], res.stats_b[1]) >>)

\* "if len(boxers_in_fight) >= 2": the first two distinct values are the pair
FightBoxers(fight_name, df_fight, boxers_in_fight) ==
    IF Len(boxers_in_fight) < 2 THEN FightResult(<< >>, << >>, << >>)
    ELSE FightStats(fight_name,
                    Call(df_fight, At(boxers_in_fight, 0), At(boxers_in_fight, 1)),
                    calculate_match_aggregates(df_fight, At(boxers_in_fight, 0), At(boxers_in_fight, 1)))

\* "if df_fight is not None"
FightLoaded(fight_name, loaded) ==
    IF loaded.df = None THEN FightResult(<< loaded.error >>, << >>, << >>)
    ELSE FightBoxers(fight_name, loaded.df[1], Unique(loaded.df[1], "Boxer"))

\* one fight of the loop of "Fight Comparison"
FightData(fight_name, file) == FightLoaded(fight_name, load_data(file))

\* two results of the loop, one after the other
FightResults(one, rest) ==
    FightResult(one.errors \o rest.errors, one.calls \o rest.calls, one.entries \o rest.entries)

\* the loop over available_datasets.items(), from its n-th item on
RECURSIVE FightLoop(_, _)
FightLoop(fs, n) ==
    IF n > Len(available_datasets) THEN FightResult(<< >>, << >>, << >>)
    ELSE FightResults(FightData(available_datasets[n], fs[available_datasets[n]]),
                      FightLoop(fs, n + 1))

\* "if not all_fight_data" and its else branch; wm is the state of the
\* metric selectbox
ComparisonPage(loop, wm) ==
    IF loop.entries = << >>
    THEN [ selected_metric |-> None,
           view |-> [ Blank(Comparison, loop.errors, "No fight data available for comparison")
                        EXCEPT !.calls = loop.calls ] ]
    ELSE [ selected_metric |-> Some(WidgetValue(wm, comparison_metrics, comparison_metrics[1])),
           view |-> [ Blank(Comparison, loop.errors, "none")
                        EXCEPT !.calls = loop.calls, !.all_fight_data = loop.entries ] ]

\* One run of the script in the view "Fight Comparison".  (The order in
\* which the chart lists the fights is not part of the model.)
ComparisonRun(fs, wm) == ComparisonPage(FightLoop(fs, 1), wm)

\* the variables of a run of "Individual Fight Analysis"
IndividualState(key, r) ==
    [ app_mode |-> Individual, selected_dataset_key |-> Some(key),
      boxer_a |-> r.sel.boxer_a, boxer_b |-> r.sel.boxer_b,
      selected_round |-> r.sel.selected_round,
      selected_metric |-> None, view |-> r.view ]

\* the variables of a run of "Fight Comparison"
ComparisonState(r) ==
    [ app_mode |-> Comparison, selected_dataset_key |-> None,
      boxer_a |-> None, boxer_b |-> None, selected_round |-> None,
      selected_metric |-> r.selected_metric, view |-> r.view ]

\* One run of the script: the values its variables end with and what it renders
ScriptRun(fs, mode, key, wa, wb, wr, wm) ==
    IF mode = Individual
    THEN IndividualState(key, IndividualRun(fs[key], key, wa, wb, wr))
    ELSE ComparisonState(ComparisonRun(fs, wm))

(* --------------------------- the application -------------------------- *)

VARIABLES
    files,                 \* the CSV file behind each key of available_datasets
    app_mode,              \* the view chosen in the sidebar radio
    selected_dataset_key,  \* the dataset selectbox (None while it is not shown)
    boxer_a, boxer_b,      \* the script's variables of that name after its last run
    selected_round,        \* the round slider (All_Rounds or a round number)
    selected_metric,       \* the metric selectbox of "Fight Comparison"
    view,                  \* what the last run of the script rendered
    fn_in, fn_step, fn_out \* an analysis function called on its own: input, stage, result

app_vars == << files, app_mode, selected_dataset_key, boxer_a, boxer_b,
               selected_round, selected_metric, view >>

fn_vars == << fn_in, fn_step, fn_out >>

vars == << files, app_mode, selected_dataset_key, boxer_a, boxer_b,
           selected_round, selected_metric, view, fn_in, fn_step, fn_out >>

\* sample rounds: the spec's example (10 thrown, 5 landed), an idle round,
\* a round that lands more than it throws (the loader does not reject it),
\* and a round whose percentages fall half way between two tenths
SampleStats == << Stat(10, 5, 6, 3, 2, 1, 550),
                  Stat(0, 0, 0, 0, 0, 0, 0),
                  Stat(0, 1, 3, 1, 1, 0, 450),
                  Stat(16, 3, 16, 1, 0, 2, 300) >>

\* The rows a file of the application is made of: one per round and boxer
\* (a boxer cell may be missing), with the sample round that the boxer's
\* position and the round number select.
FileBoxers == << NaN >> \o BoxerNames

FileRow(round, n) == Row(round, FileBoxers[n], SampleStats[((n + round) % Len(SampleStats)) + 1])

FileRows == { FileRow(round, n) : round \in 1..MaxRound, n \in 1..Len(FileBoxers) }

\* the files: at most MaxRows rows, no two for the same round and boxer, in
\* the order of the rounds
RowLists == { rows \in UNION { [ 1..k -> FileRows ] : k \in 0..MaxRows } :
                \A i, j \in 1..Len(rows) :
                    i < j => rows[i] # rows[j] /\ rows[i]["Round"] <= rows[j]["Round"] }

Files == { NoFile } \cup { File(TRUE, Columns, rows) : rows \in RowLists }

\* two rounds of Davis against one of Garcia, and two rounds of Davis alone
TwoBoxerRows == << FileRow(1, 2), FileRow(1, 3), FileRow(2, 2) >>

OneBoxerRows == << FileRow(1, 2), FileRow(2, 2) >>

\* files that differ in what load_data makes of them: missing, unreadable,
\* without one of the required columns, without optional columns
VariantFiles ==
    { NoFile, UnreadableFile, File(TRUE, Columns, TwoBoxerRows), File(TRUE, Columns, OneBoxerRows),
      File(TRUE, required_cols, TwoBoxerRows),
      File(TRUE, Columns \ {"Ring Control %"}, TwoBoxerRows),
      File(TRUE, Columns \ {"Head Punches Landed"}, TwoBoxerRows) }
    \cup { File(TRUE, Columns \ {c}, TwoBoxerRows) : c \in required_cols }

\* the files a variant file is put beside
SmallFiles == { NoFile, File(TRUE, Columns, TwoBoxerRows), File(TRUE, Columns, OneBoxerRows) }

\* the script's variables and output become those of the run r
Becomes(r) ==
    /\ app_mode' = r.app_mode
    /\ selected_dataset_key' = r.selected_dataset_key
    /\ boxer_a' = r.boxer_a
    /\ boxer_b' = r.boxer_b
    /\ selected_round' = r.selected_round
    /\ selected_metric' = r.selected_metric
    /\ view' = r.view

FnIdle == [ df |-> << >>, boxer_a |-> NaN, boxer_b |-> NaN ]

FnNoOutput == [ agg |-> None, overall |-> None, fight |-> None, page |-> None ]

\* the first run of the script: every widget at its default.  Both datasets
\* are served by one file drawn from Files, or the first by a small file and
\* the second by a variant file.
Init ==
    /\ \/ \E file \in Files : files = [ k \in DatasetKeys |-> file ]
       \/ \E file \in SmallFiles, other \in VariantFiles :
             files = [ k \in DatasetKeys |-> IF k = available_datasets[1] THEN file ELSE other ]
    /\ \E r \in { ScriptRun(files, Individual, available_datasets[1], None, None, None, None) } :
          /\ app_mode = r.app_mode
          /\ selected_dataset_key = r.selected_dataset_key
          /\ boxer_a = r.boxer_a
          /\ boxer_b = r.boxer_b
          /\ selected_round = r.selected_round
          /\ selected_metric = r.selected_metric
          /\ view = r.view
    /\ fn_in = FnIdle
    /\ fn_step = "idle"
    /\ fn_out = FnNoOutput

\* In the actions below, a widget whose options changed is either built anew
\* with its default or, where the key alone identifies it, keeps a state that
\* is still one of its options: both outcomes are allowed.

\* the radio "Choose a View": the widgets of the view left lose their state
ChooseView(mode) ==
    /\ app_mode # mode
    /\ Becomes(ScriptRun(files, mode, available_datasets[1], None, None, None, None))
    /\ UNCHANGED << files, fn_vars >>

\* the selectbox "Fights Data": the boxer and round widgets are keyed by dataset
SelectDataset(key) ==
    /\ app_mode = Individual
    /\ selected_dataset_key # Some(key)
    /\ Becomes(ScriptRun(files, Individual, key, None, None, None, None))
    /\ UNCHANGED << files, fn_vars >>

\* the selectbox "Select Boxer A"
SelectBoxerA(a) ==
    /\ app_mode = Individual
    /\ Len(view.boxers) >= 2
    /\ InSeq(a, view.boxers)
    /\ boxer_a # Some(a)
    /\ \E keep_b, keep_round \in BOOLEAN :
         \E wb \in { IF keep_b THEN boxer_b ELSE None } :
         \E kept \in { ScriptRun(files, Individual, selected_dataset_key[1], Some(a), wb, selected_round, None) } :
            IF keep_round \/ kept.view.round_options = view.round_options
            THEN Becomes(kept)
            ELSE Becomes(ScriptRun(files, Individual, selected_dataset_key[1], Some(a), wb, None, None))
    /\ UNCHANGED << files, fn_vars >>

\* the selectbox "Select Boxer B"
SelectBoxerB(b) ==
    /\ app_mode = Individual
    /\ InSeq(b, view.boxer_b_options)
    /\ boxer_b # Some(b)
    /\ \E keep_round \in BOOLEAN :
         \E kept \in { ScriptRun(files, Individual, selected_dataset_key[1], boxer_a, Some(b), selected_round, None) } :
            IF keep_round \/ kept.view.round_options = view.round_options
            THEN Becomes(kept)
            ELSE Becomes(ScriptRun(files, Individual, selected_dataset_key[1], boxer_a, Some(b), None, None))
    /\ UNCHANGED << files, fn_vars >>

\* the slider "Select Round"
SelectRound(round) ==
    /\ app_mode = Individual
    /\ round = All_Rounds \/ InSeq(round, view.round_options)
    /\ selected_round # None
    /\ selected_round # Some(round)
    /\ Becomes(ScriptRun(files, Individual, selected_dataset_key[1], boxer_a, boxer_b, Some(round), None))
    /\ UNCHANGED << files, fn_vars >>

\* the selectbox "Select Metric to Compare"
SelectMetric(metric) ==
    /\ app_mode = Comparison
    /\ selected_metric # None
    /\ selected_metric # Some(metric)
    /\ InSeq(metric, comparison_metrics)
    /\ Becomes(ScriptRun(files, Comparison, available_datasets[1], None, None, None, Some(metric)))
    /\ UNCHANGED << files, fn_vars >>

Next ==
    \/ \E mode \in {Individual, Comparison} : ChooseView(mode)
    \/ \E key \in DatasetKeys : SelectDataset(key)
    \/ \E a \in Names : SelectBoxerA(a)
    \/ \E b \in Names : SelectBoxerB(b)
    \/ \E round \in 0..MaxRound : SelectRound(round)
    \/ \E i \in 1..Len(comparison_metrics) : SelectMetric(comparison_metrics[i])

Spec == Init /\ [][Next]_vars

(* ---------------- the analysis functions on their own ------------------ *)


\* the indices of df whose row belongs to boxer
RowsOf(df, boxer) == { i \in 1..Len(df) : df[i]["Boxer"] = boxer }

FnBoxers == { BoxerNames[i] : i \in 1..3 }

FnRecords == { Row(1, b, SampleStats[i]) : b \in FnBoxers, i \in 1..Len(SampleStats) }

SeqsUpTo(S, n) == UNION { [ 1..k -> S ] : k \in 0..n }

AppIdle ==
    /\ files = [ k \in DatasetKeys |-> NoFile ]
    /\ app_mode = "none"
    /\ selected_dataset_key = None
    /\ boxer_a = None
    /\ boxer_b = None
    /\ selected_round = None
    /\ selected_metric = None
    /\ view = Blank("none", << >>, "none")

FnInit ==
    /\ fn_in \in { [ df |-> d, boxer_a |-> a, boxer_b |-> b ] :
                     d \in SeqsUpTo(FnRecords, MaxRecs), a \in FnBoxers, b \in FnBoxers }
    /\ fn_in.boxer_a # fn_in.boxer_b
    /\ fn_step = "input"
    /\ fn_out = FnNoOutput
    /\ AppIdle

FnAggregate ==
    /\ fn_step = "input"
    /\ fn_step' = "aggregates"
    /\ fn_out' = [ fn_out EXCEPT !.agg =
                     Some(calculate_match_aggregates(fn_in.df, fn_in.boxer_a, fn_in.boxer_b)) ]
    /\ UNCHANGED << fn_in, app_vars >>

FnOverall ==
    /\ fn_step = "input"
    /\ fn_step' = "overall"
    /\ fn_out' = [ fn_out EXCEPT !.overall =
                     Some(OverallMatchAnalysis(fn_in.df, fn_in.boxer_a, fn_in.boxer_b)) ]
    /\ UNCHANGED << fn_in, app_vars >>

\* the body of the loop of "Fight Comparison" from the call on, for the pair given
FnFight ==
    /\ fn_step = "input"
    /\ fn_step' = "fight"
    /\ fn_out' = [ fn_out EXCEPT !.fight =
                     Some(FightStats("fight", Call(fn_in.df, fn_in.boxer_a, fn_in.boxer_b),
                            calculate_match_aggregates(fn_in.df, fn_in.boxer_a, fn_in.boxer_b))) ]
    /\ UNCHANGED << fn_in, app_vars >>

\* The page of the pair from "if boxer_a and boxer_b" on, for a value of
\* selected_round given from outside (it need not be a round of the frame).
\* As in a file, no two rows are of the same round and boxer, and both boxers
\* are among the boxers of the frame.
FnRound(round) ==
    /\ fn_step = "input"
    /\ \A i, j \in 1..Len(fn_in.df) :
          i # j => fn_in.df[i]["Boxer"] # fn_in.df[j]["Boxer"]
    /\ RowsOf(fn_in.df, fn_in.boxer_a) # {}
    /\ RowsOf(fn_in.df, fn_in.boxer_b) # {}
    /\ fn_step' = "round"
    /\ \E df_filtered \in { df_filtered_of(fn_in.df, fn_in.boxer_a, fn_in.boxer_b) } :
       \E boxers \in { SortedNames(ColumnValues(fn_in.df, "Boxer")) } :
          fn_out' = [ fn_out EXCEPT !.page =
                        Some(PairPage(df_filtered, boxers,
                                      boxer_b_options(boxers, fn_in.boxer_a),
                                      fn_in.boxer_a, fn_in.boxer_b,
                                      SortedInts(ColumnValues(df_filtered, "Round")), round)) ]
    /\ UNCHANGED << fn_in, app_vars >>

FnNext ==
    \/ FnAggregate
    \/ FnOverall
    \/ FnFight
    \/ \E round \in 0..MaxRound : FnRound(round)

SpecFn == FnInit /\ [][FnNext]_vars

(* ------------------ generate_data.py: generate_boxing_data ------------- *)

\* The module random is a tape of outcomes that is read cyclically: the
\* outcome at a position says how far between the lowest and the highest
\* value of the range the number drawn lies.
Tapes == [ 1..MaxTape -> 0..DrawLevels ]

\* random.randint(lo, hi), read at position pos of the tape (lo <= hi)
randint(tape, pos, lo, hi) == lo + ((hi - lo) * tape[(pos % Len(tape)) + 1]) \div DrawLevels

\* int(x * 0.t) for a count x and a digit t: the float product truncated,
\* which for the counts up to 80 met here is the integer quotient
IntOfTenths(x, t) == (x * t) \div 10

\* mutant of Clamped: the significant punches landed left above those thrown
Unclamped(sig_punches_landed, sig_punches_thrown) ==
    IF sig_punches_landed < IntOfTenths(sig_punches_thrown, 1)
    THEN IntOfTenths(sig_punches_thrown, 1)
    ELSE sig_punches_landed

\* the two corrections of sig_punches_landed, one after the other
Clamped(sig_punches_landed, sig_punches_thrown) ==
    LET capped == IF sig_punches_landed > sig_punches_thrown
                  THEN sig_punches_thrown ELSE sig_punches_landed
    IN IF capped < IntOfTenths(sig_punches_thrown, 1)
       THEN IntOfTenths(sig_punches_thrown, 1)
       ELSE capped

\* the dictionary appended to data (Ring Control % in tenths of a percent)
GenRow(round_num, boxer, opponent, punches_thrown, punches_landed, sig_punches_thrown, sig_punches_landed, head_landed, ring_control_pct) ==
    [ c \in { "Round", "Boxer", "Opponent", "Punches Thrown", "Punches Landed",
              "Significant Punches Thrown", "Significant Punches Landed",
              "Head Punches Landed", "Body Punches Landed", "Jabs Landed",
              "Power Punches Landed", "Ring Control %" } |->
        CASE c = "Round" -> round_num
          [] c = "Boxer" -> boxer
          [] c = "Opponent" -> opponent
          [] c = "Punches Thrown" -> punches_thrown
          [] c = "Punches Landed" -> punches_landed
          [] c = "Significant Punches Thrown" -> sig_punches_thrown
          [] c = "Significant Punches Landed" -> sig_punches_landed
          [] c = "Head Punches Landed" -> head_landed
          [] c = "Body Punches Landed" -> sig_punches_landed - head_landed
          [] c = "Jabs Landed" ->
               IF punches_landed - sig_punches_landed < 0 THEN 0
               ELSE punches_landed - sig_punches_landed
          [] c = "Power Punches Landed" ->
               IF punches_landed - sig_punches_landed < 0 THEN punches_landed
               ELSE sig_punches_landed
          [] OTHER -> ring_control_pct ]

\* the body of the inner loop from sig_punches_landed on
GenSig(round_num, boxer, opponent, tape, pos, punches_thrown, punches_landed, sig_punches_thrown, sig_punches_landed) ==
    GenRow(round_num, boxer, opponent, punches_thrown, punches_landed, sig_punches_thrown,
           sig_punches_landed,
           randint(tape, pos + 4, IntOfTenths(sig_punches_landed, 4), IntOfTenths(sig_punches_landed, 8)),
           randint(tape, pos + 5, 300, 700))

\* the body of the inner loop from punches_landed on
GenLanded(round_num, boxer, opponent, tape, pos, punches_thrown, punches_landed) ==
    GenSig(round_num, boxer, opponent, tape, pos, punches_thrown, punches_landed,
           randint(tape, pos + 2, IntOfTenths(punches_thrown, 4), IntOfTenths(punches_thrown, 7)),
           Clamped(randint(tape, pos + 3, IntOfTenths(punches_landed, 5), punches_landed),
                   randint(tape, pos + 2, IntOfTenths(punches_thrown, 4), IntOfTenths(punches_thrown, 7))))

GenThrown(round_num, boxer, opponent, tape, pos, punches_thrown) ==
    GenLanded(round_num, boxer, opponent, tape, pos, punches_thrown,
              randint(tape, pos + 1, IntOfTenths(punches_thrown, 2), IntOfTenths(punches_thrown, 5)))

\* one pass of the inner loop: the record made of the six numbers drawn from
\* position pos of the tape on
GenRecord(round_num, boxer, opponent, tape, pos) ==
    GenThrown(round_num, boxer, opponent, tape, pos, randint(tape, pos, 40, 80))

\* the first index of the record of a round and a boxer, 0 if there is none
FirstIndex(df, round_num, boxer) ==
    IF \E i \in 1..Len(df) : df[i]["Round"] = round_num /\ df[i]["Boxer"] = boxer
    THEN CHOOSE i \in 1..Len(df) :
           /\ df[i]["Round"] = round_num /\ df[i]["Boxer"] = boxer
           /\ \A j \in 1..(i - 1) : ~(df[j]["Round"] = round_num /\ df[j]["Boxer"] = boxer)
    ELSE 0

\* one pass of the second loop: boxer B's ring control of the round set to
\* 100.0 minus boxer A's
AdjustRingControl(df, round_num, boxer_a_name, boxer_b_name) ==
    LET boxer_a_idx == FirstIndex(df, round_num, boxer_a_name)
        boxer_b_idx == FirstIndex(df, round_num, boxer_b_name)
    IN IF boxer_a_idx # 0 /\ boxer_b_idx # 0
       THEN [ df EXCEPT ![boxer_b_idx] =
                [ df[boxer_b_idx] EXCEPT !["Ring Control %"] = 1000 - df[boxer_a_idx]["Ring Control %"] ] ]
       ELSE df

GenNames == { << "Lightning Lewis", "Thunder Thompson" >>, << "Boxer B", "Boxer A" >> }

\* a call generate_boxing_data(boxer_a_name, boxer_b_name, num_rounds)
GenInit ==
    /\ fn_in \in { [ boxer_a_name |-> n[1], boxer_b_name |-> n[2], num_rounds |-> r, tape |-> t ] :
                     n \in GenNames, r \in 0..MaxGenRounds, t \in Tapes }
    /\ fn_step = "data"
    /\ fn_out = [ data |-> << >>, round_num |-> 1, turn |-> 1, drawn |-> 0 ]
    /\ AppIdle

\* one pass of the inner loop: first (boxer A, boxer B), then (boxer B, boxer A)
GenAppend ==
    /\ fn_step = "data"
    /\ fn_out.round_num <= fn_in.num_rounds
    /\ fn_out' = [ data |-> Append(fn_out.data,
                              GenRecord(fn_out.round_num,
                                        IF fn_out.turn = 1 THEN fn_in.boxer_a_name ELSE fn_in.boxer_b_name,
                                        IF fn_out.turn = 1 THEN fn_in.boxer_b_name ELSE fn_in.boxer_a_name,
                                        fn_in.tape, fn_out.drawn)),
                   round_num |-> IF fn_out.turn = 1 THEN fn_out.round_num ELSE fn_out.round_num + 1,
                   turn |-> IF fn_out.turn = 1 THEN 2 ELSE 1,
                   drawn |-> fn_out.drawn + 6 ]
    /\ UNCHANGED << fn_step, fn_in, app_vars >>

\* df = pd.DataFrame(data), and the second loop begins
GenFrame ==
    /\ fn_step = "data"
    /\ fn_out.round_num > fn_in.num_rounds
    /\ fn_step' = "ring control"
    /\ fn_out' = [ fn_out EXCEPT !.round_num = 1 ]
    /\ UNCHANGED << fn_in, app_vars >>

\* one pass of the second loop
GenAdjust ==
    /\ fn_step = "ring control"
    /\ fn_out.round_num <= fn_in.num_rounds
    /\ fn_out' = [ fn_out EXCEPT !.data = AdjustRingControl(fn_out.data, fn_out.round_num,
                                                           fn_in.boxer_a_name, fn_in.boxer_b_name),
                                 !.round_num = fn_out.round_num + 1 ]
    /\ UNCHANGED << fn_step, fn_in, app_vars >>

\* return df
GenReturn ==
    /\ fn_step = "ring control"
    /\ fn_out.round_num > fn_in.num_rounds
    /\ fn_step' = "returned"
    /\ UNCHANGED << fn_in, fn_out, app_vars >>

GenNext == GenAppend \/ GenFrame \/ GenAdjust \/ GenReturn

SpecGen == GenInit /\ [][GenNext]_vars

(* ------------ scrape_boxingscene.py: scrape_davis_garcia_stats --------- *)

\* A text is the sequence of its characters.
Digits == { "0", "1", "2", "3", "4", "5", "6", "7", "8", "9" }

DigitValue(c) == CHOOSE v \in 0..9 : << "0", "1", "2", "3", "4", "5", "6", "7", "8", "9" >>[v + 1] = c

\* str.isdigit() (of the texts met here, which have ASCII digits only)
isdigit(text) == text # << >> /\ \A i \in 1..Len(text) : text[i] \in Digits

\* int(text) of a text of digits
RECURSIVE int(_)
int(text) ==
    IF text = << >> THEN 0
    ELSE 10 * int(SubSeq(text, 1, Len(text) - 1)) + DigitValue(text[Len(text)])

\* the number of digits that text has from position from on
DigitRun(text, from) ==
    IF from > Len(text) \/ text[from] \notin Digits THEN 0
    ELSE (CHOOSE k \in from..Len(text) :
            /\ \A i \in from..k : text[i] \in Digits
            /\ k = Len(text) \/ text[k + 1] \notin Digits) - from + 1

\* re.match(r"(\d+)/(\d+)", text) and the two numbers of the round, 0 and 0
\* if there is no match
Cell(text) ==
    IF /\ DigitRun(text, 1) > 0
       /\ DigitRun(text, 1) < Len(text)
       /\ text[DigitRun(text, 1) + 1] = "/"
       /\ DigitRun(text, DigitRun(text, 1) + 2) > 0
    THEN [ Landed |-> int(SubSeq(text, 1, DigitRun(text, 1))),
           Thrown |-> int(SubSeq(text, DigitRun(text, 1) + 2,
                                 DigitRun(text, 1) + 1 + DigitRun(text, DigitRun(text, 1) + 2))) ]
    ELSE [ Landed |-> 0, Thrown |-> 0 ]

\* a tr of a table: the texts of its th cells and of its td cells (the first
\* td of a row of statistics is the boxer, a plain string)
Tr(th, td) == [ th |-> th, td |-> td ]

\* num_rounds: the largest header that is a number, 0 if there is none
RECURSIVE NumRounds(_)
NumRounds(headers) ==
    IF headers = << >> THEN 0
    ELSE LET rest == NumRounds(Tail(headers))
         IN IF isdigit(Head(headers)) /\ int(Head(headers)) > rest
            THEN int(Head(headers)) ELSE rest

\* data[boxer] of one row: the rounds 1 .. min(len(cols), num_rounds + 1) - 1
RoundsOfRow(cols, num_rounds) ==
    [ i \in 1..((IF Len(cols) < num_rounds + 1 THEN Len(cols) ELSE num_rounds + 1) - 1) |->
        Cell(cols[i + 1]) ]

\* the loop over rows[1:], from the n-th row on, data being the dictionary
\* so far (a function from boxers to their rounds)
RECURSIVE ParseRows(_, _, _, _)
ParseRows(rows, n, num_rounds, data) ==
    IF n > Len(rows) THEN data
    ELSE IF rows[n].td = << >> \/ rows[n].td[1] \notin { "DAVIS", "GARCIA" }
    THEN ParseRows(rows, n + 1, num_rounds, data)
    ELSE ParseRows(rows, n + 1, num_rounds,
                   [ b \in (DOMAIN data) \cup { rows[n].td[1] } |->
                       IF b = rows[n].td[1] THEN RoundsOfRow(rows[n].td, num_rounds) ELSE data[b] ])

\* the empty dictionary
EmptyDict == [ b \in {} |-> << >> ]

\* parse_stats_table: None for a table without tr, else (data, num_rounds)
parse_stats_table(table) ==
    IF table = << >> THEN None
    ELSE Some([ data |-> ParseRows(table, 2, NumRounds(table[1].th), EmptyDict),
                num_rounds |-> NumRounds(table[1].th) ])

\* stats.get(boxer_key, {}).get(round_num, {"..._Landed": 0, "..._Thrown": 0})
StatsGet(stats, boxer_key, round_num) ==
    IF boxer_key \in DOMAIN stats /\ round_num \in DOMAIN stats[boxer_key]
    THEN stats[boxer_key][round_num]
    ELSE [ Landed |-> 0, Thrown |-> 0 ]

boxer_full_names == [ b \in { "DAVIS", "GARCIA" } |->
                        IF b = "DAVIS" THEN "Gervonta Davis" ELSE "Hector Luis Garcia" ]

\* the dictionary appended to match_data
ScrapedRow(round_num, boxer_key, opponent_key, round_total, round_jab, round_power) ==
    [ c \in { "Round", "Boxer", "Opponent", "Punches Thrown", "Punches Landed",
              "Significant Punches Thrown", "Significant Punches Landed",
              "Head Punches Landed", "Body Punches Landed", "Jabs Landed",
              "Power Punches Landed", "Ring Control %" } |->
        CASE c = "Round" -> round_num
          [] c = "Boxer" -> boxer_full_names[boxer_key]
          [] c = "Opponent" -> boxer_full_names[opponent_key]
          [] c = "Punches Thrown" -> round_total.Thrown
          [] c = "Punches Landed" -> round_total.Landed
          [] c = "Significant Punches Thrown" -> round_power.Thrown
          [] c = "Significant Punches Landed" -> round_power.Landed
          [] c = "Jabs Landed" -> round_jab.Landed
          [] c = "Power Punches Landed" -> round_power.Landed
          [] OTHER -> 0 ]

\* match_data: for every round 1 .. num_rounds the record of DAVIS and then
\* that of GARCIA
MatchData(total_stats, jab_stats, power_stats, num_rounds) ==
    [ i \in 1..(2 * num_rounds) |->
        LET round_num == (i + 1) \div 2
            boxer_key == IF i % 2 = 1 THEN "DAVIS" ELSE "GARCIA"
            opponent_key == IF i % 2 = 1 THEN "GARCIA" ELSE "DAVIS"
        IN ScrapedRow(round_num, boxer_key, opponent_key,
                      StatsGet(total_stats, boxer_key, round_num),
                      StatsGet(jab_stats, boxer_key, round_num),
                      StatsGet(power_stats, boxer_key, round_num)) ]

\* texts of cells: "3/7", "-", "12/5x" (the pattern matches its beginning)
\* and "/4"
CellTexts == { << "3", "/", "7" >>, << "-" >>, << "1", "2", "/", "5", "x" >>, << "/", "4" >> }

\* header rows: th cells "", "1", "2"; "", "1"; "Rd", "2"; and a row without th
HeaderRows == { Tr(<< << >>, << "1" >>, << "2" >> >>, << >>),
                Tr(<< << >>, << "1" >> >>, << >>),
                Tr(<< << "R", "d" >>, << "2" >> >>, << >>),
                Tr(<< >>, << >>) }

\* rows of statistics: a boxer or a line of totals and up to MaxRound cells,
\* and a row without td
StatRows == { Tr(<< >>, << name >> \o cells) :
                name \in { "DAVIS", "GARCIA", "TOTAL" },
                cells \in UNION { [ 1..n -> CellTexts ] : n \in 0..MaxRound } }
            \cup { Tr(<< >>, << >>) }

SecondRows == { Tr(<< >>, << "GARCIA", << "3", "/", "7" >>, << "-" >> >>),
                Tr(<< >>, << "DAVIS", << "1", "2", "/", "5", "x" >> >>) }

\* tables: a table is the sequence of its tr, << >> a table without any
ScrapedTables == { << >> }
                 \cup { << h >> : h \in HeaderRows }
                 \cup { << h, r >> : h \in HeaderRows, r \in StatRows }
                 \cup { << h, r, s >> : h \in HeaderRows, r \in StatRows, s \in SecondRows }

FewTables == { << >>,
               << Tr(<< << >>, << "1" >>, << "2" >> >>, << >>),
                  Tr(<< >>, << "DAVIS", << "3", "/", "7" >>, << "3", "/", "7" >> >>),
                  Tr(<< >>, << "GARCIA", << "3", "/", "7" >>, << "-" >> >>) >>,
               << Tr(<< << >>, << "1" >> >>, << >>),
                  Tr(<< >>, << "TOTAL", << "3", "/", "7" >> >>) >>,
               << Tr(<< << >>, << "1" >>, << "2" >> >>, << >>),
                  Tr(<< >>, << "GARCIA", << "1", "2", "/", "5", "x" >> >>) >> }

\* the answer to requests.get(url) and the tables of the page
Page(fetch, tables) == [ fetch |-> fetch, tables |-> tables ]

Pages == { Page("RequestException", << >>) }
         \cup { Page("ok", tables) : tables \in UNION { [ 1..n -> FewTables ] : n \in 0..2 } }
         \cup { Page("ok", << t, j, p >>) : t \in ScrapedTables, j \in FewTables, p \in FewTables }
         \cup { Page("ok", << t, j, p, j >>) : t \in FewTables, j \in FewTables, p \in FewTables }

ScrapeInit ==
    /\ fn_in \in Pages
    /\ fn_step = "fetch"
    /\ fn_out = [ result |-> None, raised |-> "none", printed |-> << >>,
                  total_stats |-> None, jab_stats |-> None, power_stats |-> None ]
    /\ AppIdle

\* requests.get(url) and raise_for_status()
ScrapeFetch ==
    /\ fn_step = "fetch"
    /\ IF fn_in.fetch = "ok"
       THEN /\ fn_step' = "tables"
            /\ UNCHANGED fn_out
       ELSE /\ fn_step' = "returned"
            /\ fn_out' = [ fn_out EXCEPT !.printed = Append(@, "Error fetching URL") ]
    /\ UNCHANGED << fn_in, app_vars >>

\* tables = soup.find_all("table") and the check of their number
ScrapeFindTables ==
    /\ fn_step = "tables"
    /\ fn_step' = IF Len(fn_in.tables) < 3 THEN "returned" ELSE "total"
    /\ fn_out' = [ fn_out EXCEPT !.printed = IF Len(fn_in.tables) < 4
                                             THEN Append(@, "Error: Expected at least 4 tables")
                                             ELSE @ ]
    /\ UNCHANGED << fn_in, app_vars >>

\* total_stats, num_rounds = parse_stats_table(tables[0], "Total"): unpacking
\* None raises TypeError
ScrapeParseTotal ==
    /\ fn_step = "total"
    /\ IF parse_stats_table(fn_in.tables[1]) = None
       THEN /\ fn_step' = "raised"
            /\ fn_out' = [ fn_out EXCEPT !.raised = "TypeError" ]
       ELSE /\ fn_step' = "jab"
            /\ fn_out' = [ fn_out EXCEPT !.total_stats = parse_stats_table(fn_in.tables[1]) ]
    /\ UNCHANGED << fn_in, app_vars >>

\* jab_stats, _ = parse_stats_table(tables[1], "Jab")
ScrapeParseJab ==
    /\ fn_step = "jab"
    /\ IF parse_stats_table(fn_in.tables[2]) = None
       THEN /\ fn_step' = "raised"
            /\ fn_out' = [ fn_out EXCEPT !.raised = "TypeError" ]
       ELSE /\ fn_step' = "power"
            /\ fn_out' = [ fn_out EXCEPT !.jab_stats = parse_stats_table(fn_in.tables[2]) ]
    /\ UNCHANGED << fn_in, app_vars >>

\* power_stats, _ = parse_stats_table(tables[2], "Power")
ScrapeParsePower ==
    /\ fn_step = "power"
    /\ IF parse_stats_table(fn_in.tables[3]) = None
       THEN /\ fn_step' = "raised"
            /\ fn_out' = [ fn_out EXCEPT !.raised = "TypeError" ]
       ELSE /\ fn_step' = "check"
            /\ fn_out' = [ fn_out EXCEPT !.power_stats = parse_stats_table(fn_in.tables[3]) ]
    /\ UNCHANGED << fn_in, app_vars >>

\* if not total_stats or not jab_stats or not power_stats
ScrapeCheck ==
    /\ fn_step = "check"
    /\ IF \E stats \in { fn_out.total_stats, fn_out.jab_stats, fn_out.power_stats } :
            DOMAIN stats[1].data = {}
       THEN /\ fn_step' = "returned"
            /\ fn_out' = [ fn_out EXCEPT !.printed = Append(@, "Error parsing one or more stats tables.") ]
       ELSE /\ fn_step' = "combine"
            /\ UNCHANGED fn_out
    /\ UNCHANGED << fn_in, app_vars >>

\* the loop over the rounds and the boxers, and return pd.DataFrame(match_data)
ScrapeCombine ==
    /\ fn_step = "combine"
    /\ fn_step' = "returned"
    /\ fn_out' = [ fn_out EXCEPT !.result = Some(MatchData(fn_out.total_stats[1].data,
                                                           fn_out.jab_stats[1].data,
                                                           fn_out.power_stats[1].data,
                                                           fn_out.total_stats[1].num_rounds)) ]
    /\ UNCHANGED << fn_in, app_vars >>

ScrapeNext ==
    \/ ScrapeFetch
    \/ ScrapeFindTables
    \/ ScrapeParseTotal
    \/ ScrapeParseJab
    \/ ScrapeParsePower
    \/ ScrapeCheck
    \/ ScrapeCombine

SpecScrape == ScrapeInit /\ [][ScrapeNext]_vars

(* ------------------------------ claims -------------------------------- *)

\* the sum of a column over a set of row indices, whatever their order
RECURSIVE SumAt(_, _, _)
SumAt(df, I, col) ==
    IF I = {} THEN 0
    ELSE LET i == CHOOSE j \in I : TRUE IN df[i][col] + SumAt(df, I \ {i}, col)

\* the row of a table for a boxer, as a set (empty when there is none)
TableRows(df_agg, boxer) == { df_agg[i] : i \in { j \in 1..Len(df_agg) : df_agg[j].Boxer = boxer } }

\* C1: for every competitor that appears in the records, the row that
\* calculate_match_aggregates returns for it holds, in each of the six total
\* columns, the sum of that column over exactly that competitor's records.
C1_TotalsAreSums ==
    fn_step = "aggregates" =>
        LET df == fn_in.df
            res == fn_out.agg[1]
        IN \A c \in ColumnValues(df, "Boxer") :
             /\ Cardinality(TableRows(res.df_agg, c)) = 1
             /\ \A row \in TableRows(res.df_agg, c) :
                  /\ row.total_punches_thrown = SumAt(df, RowsOf(df, c), "Punches Thrown")
                  /\ row.total_punches_landed = SumAt(df, RowsOf(df, c), "Punches Landed")
                  /\ row.total_sig_punches_thrown = SumAt(df, RowsOf(df, c), "Significant Punches Thrown")
                  /\ row.total_sig_punches_landed = SumAt(df, RowsOf(df, c), "Significant Punches Landed")
                  /\ row.total_head_punches_landed = SumAt(df, RowsOf(df, c), "Head Punches Landed")
                  /\ row.total_body_punches_landed = SumAt(df, RowsOf(df, c), "Body Punches Landed")
                  /\ (c = fn_in.boxer_a => res.stats_a = Some(row))
                  /\ (c = fn_in.boxer_b => res.stats_b = Some(row))

\* C1 witness: the spec's example, two rounds of 10 thrown and 5 landed for
\* boxer A beside a round of another competitor, aggregated to 20, 10, 50.0
C1_Witness ==
    /\ fn_step = "aggregates"
    /\ Len(fn_in.df) = 3
    /\ Cardinality(RowsOf(fn_in.df, fn_in.boxer_a)) = 2
    /\ \A i \in RowsOf(fn_in.df, fn_in.boxer_a) :
         fn_in.df[i]["Punches Thrown"] = 10 /\ fn_in.df[i]["Punches Landed"] = 5
    /\ fn_out.agg[1].stats_a # None
    /\ fn_out.agg[1].stats_a[1].total_punches_thrown = 20
    /\ fn_out.agg[1].stats_a[1].total_punches_landed = 10
    /\ fn_out.agg[1].stats_a[1].punch_accuracy_pct = 500

Max(a, b) == IF a >= b THEN a ELSE b

Abs(x) == IF x >= 0 THEN x ELSE -x

\* pct (in tenths of a percent) is 100 * landed / max(thrown, 1) rounded to
\* one decimal: no tenth is nearer to the quotient
IsRoundedPct(pct, landed, thrown) ==
    2 * Abs(pct * Max(thrown, 1) - 1000 * landed) <= Max(thrown, 1)

\* C2 as stated: each accuracy is 100 * landed / max(thrown, 1) rounded to one
\* decimal, a competitor whose total thrown is 0 gets accuracy 0.0, and with
\* landed <= thrown the accuracy lies in [0, 100].
C2_Original ==
    fn_step = "aggregates" =>
        \A i \in 1..Len(fn_out.agg[1].df_agg) :
            LET row == fn_out.agg[1].df_agg[i]
            IN /\ IsRoundedPct(row.punch_accuracy_pct, row.total_punches_landed, row.total_punches_thrown)
               /\ IsRoundedPct(row.sig_punch_accuracy_pct, row.total_sig_punches_landed, row.total_sig_punches_thrown)
               /\ (row.total_punches_thrown = 0 => row.punch_accuracy_pct = 0)
               /\ (row.total_sig_punches_thrown = 0 => row.sig_punch_accuracy_pct = 0)
               /\ (row.total_punches_landed <= row.total_punches_thrown =>
                     row.punch_accuracy_pct \in 0..1000)
               /\ (row.total_sig_punches_landed <= row.total_sig_punches_thrown =>
                     row.sig_punch_accuracy_pct \in 0..1000)

\* C2 amended: each accuracy is 100 * landed / max(thrown, 1) rounded to one
\* decimal; a competitor whose total thrown is 0 gets the finite accuracy
\* 100 * total landed, which is 0.0 when nothing landed either; and with
\* landed <= thrown the accuracy lies in [0, 100].
C2_Accuracy ==
    fn_step = "aggregates" =>
        \A i \in 1..Len(fn_out.agg[1].df_agg) :
            LET row == fn_out.agg[1].df_agg[i]
            IN /\ IsRoundedPct(row.punch_accuracy_pct, row.total_punches_landed, row.total_punches_thrown)
               /\ IsRoundedPct(row.sig_punch_accuracy_pct, row.total_sig_punches_landed, row.total_sig_punches_thrown)
               /\ (row.total_punches_thrown = 0 =>
                     row.punch_accuracy_pct = 1000 * row.total_punches_landed)
               /\ (row.total_sig_punches_thrown = 0 =>
                     row.sig_punch_accuracy_pct = 1000 * row.total_sig_punches_landed)
               /\ (row.total_punches_landed <= row.total_punches_thrown =>
                     row.punch_accuracy_pct \in 0..1000)
               /\ (row.total_sig_punches_landed <= row.total_sig_punches_thrown =>
                     row.sig_punch_accuracy_pct \in 0..1000)

\* C2 witness: one competitor threw and landed nothing and gets 0.0, another
\* gets an accuracy that had to be rounded (8 of 26 is 30.8)
C2_Witness ==
    /\ fn_step = "aggregates"
    /\ \E i, j \in 1..Len(fn_out.agg[1].df_agg) :
         /\ fn_out.agg[1].df_agg[i].total_punches_thrown = 0
         /\ fn_out.agg[1].df_agg[i].total_punches_landed = 0
         /\ fn_out.agg[1].df_agg[i].punch_accuracy_pct = 0
         /\ fn_out.agg[1].df_agg[j].total_punches_thrown = 26
         /\ fn_out.agg[1].df_agg[j].total_punches_landed = 8
         /\ fn_out.agg[1].df_agg[j].punch_accuracy_pct = 308

\* the record sequence df in the order p, a permutation of its indices
Permuted(df, p) == [ i \in 1..Len(df) |-> df[p[i]] ]

\* the totals and derived accuracies of an aggregate row
Totals(row) ==
    << row.Boxer, row.total_punches_thrown, row.total_punches_landed, row.punch_accuracy_pct,
       row.total_sig_punches_thrown, row.total_sig_punches_landed, row.sig_punch_accuracy_pct,
       row.total_head_punches_landed, row.total_body_punches_landed >>

\* the totals of a result of calculate_match_aggregates, per competitor
TotalsOf(res) ==
    [ stats_a |-> [ i \in 1..Len(res.stats_a) |-> Totals(res.stats_a[i]) ],
      stats_b |-> [ i \in 1..Len(res.stats_b) |-> Totals(res.stats_b[i]) ],
      df_agg |-> { Totals(res.df_agg[i]) : i \in 1..Len(res.df_agg) } ]

\* C3: calculate_match_aggregates is order-insensitive: on every permutation
\* of the record sequence it returns, for each competitor, the totals and
\* accuracies it returned on the sequence itself.
C3_OrderInsensitive ==
    fn_step = "aggregates" =>
        \A p \in Permutations(1..Len(fn_in.df)) :
            TotalsOf(calculate_match_aggregates(Permuted(fn_in.df, p), fn_in.boxer_a, fn_in.boxer_b))
              = TotalsOf(fn_out.agg[1])

\* C3 witness: boxer A has two rounds with different numbers, so that a
\* permutation changes the order in which they are summed
C3_Witness ==
    /\ fn_step = "aggregates"
    /\ \E i, j \in RowsOf(fn_in.df, fn_in.boxer_a) :
         /\ i < j
         /\ fn_in.df[i]["Punches Thrown"] # fn_in.df[j]["Punches Thrown"]
         /\ fn_in.df[i]["Significant Punches Landed"] # fn_in.df[j]["Significant Punches Landed"]
    /\ fn_out.agg[1].stats_a # None
    /\ fn_out.agg[1].stats_a[1].total_punches_thrown = 26

\* a requested competitor without a record in the input
Absent(df, boxer) == RowsOf(df, boxer) = {}

\* C4: when boxer_a or boxer_b has no record in the input,
\* calculate_match_aggregates returns None for it, and both callers, the
\* section "Overall Match Analysis" and the loop of "Fight Comparison", then
\* render no metrics, no table, no winner judgment and no comparison entry.
C4_AbsentIsNone ==
    /\ fn_step = "aggregates" =>
         /\ Absent(fn_in.df, fn_in.boxer_a) => fn_out.agg[1].stats_a = None
         /\ Absent(fn_in.df, fn_in.boxer_b) => fn_out.agg[1].stats_b = None
    /\ fn_step = "overall" /\ (Absent(fn_in.df, fn_in.boxer_a) \/ Absent(fn_in.df, fn_in.boxer_b)) =>
         /\ fn_out.overall[1].metrics = None
         /\ fn_out.overall[1].table = None
         /\ fn_out.overall[1].judgment = None
         /\ fn_out.overall[1].notice = "Could not calculate overall match statistics"
    /\ fn_step = "fight" /\ (Absent(fn_in.df, fn_in.boxer_a) \/ Absent(fn_in.df, fn_in.boxer_b)) =>
         fn_out.fight[1].entries = << >>

\* C4 witness: boxer A has records, boxer B has none, and the section
\* "Overall Match Analysis" shows the warning instead of a comparison
C4_Witness ==
    /\ fn_step = "overall"
    /\ ~Absent(fn_in.df, fn_in.boxer_a)
    /\ Absent(fn_in.df, fn_in.boxer_b)
    /\ fn_out.overall[1].judgment = None
    /\ fn_out.overall[1].notice = "Could not calculate overall match statistics"

\* the competitors present in a record sequence (a missing Boxer cell names none)
Competitors(df) == ColumnValues(df, "Boxer") \ {NaN}

\* C5: the table returned as third result has exactly one row per distinct
\* competitor present in the records, requested or not, and the two stats
\* rows returned are the rows of that table for boxer_a and boxer_b.
C5_OneRowPerCompetitor ==
    fn_step = "aggregates" =>
        LET res == fn_out.agg[1]
        IN /\ { res.df_agg[i].Boxer : i \in 1..Len(res.df_agg) } = Competitors(fn_in.df)
           /\ Len(res.df_agg) = Cardinality(Competitors(fn_in.df))
           /\ \A c \in Competitors(fn_in.df) : Cardinality(TableRows(res.df_agg, c)) = 1
           /\ { res.stats_a[i] : i \in 1..Len(res.stats_a) } = TableRows(res.df_agg, fn_in.boxer_a)
           /\ { res.stats_b[i] : i \in 1..Len(res.stats_b) } = TableRows(res.df_agg, fn_in.boxer_b)
           /\ Len(res.stats_a) <= 1 /\ Len(res.stats_b) <= 1

\* C5 witness: three competitors have records, two of them are requested,
\* and the table has a row for the third as well
C5_Witness ==
    /\ fn_step = "aggregates"
    /\ Cardinality(Competitors(fn_in.df)) = 3
    /\ Len(fn_out.agg[1].df_agg) = 3
    /\ fn_out.agg[1].stats_a # None
    /\ fn_out.agg[1].stats_b # None
    /\ \E i \in 1..3 : fn_out.agg[1].df_agg[i].Boxer \notin {fn_in.boxer_a, fn_in.boxer_b}

\* the significant punches a competitor landed over all its records
SigLanded(df, boxer) == SumAt(df, RowsOf(df, boxer), "Significant Punches Landed")

\* C6: the announced winner is the competitor with strictly more significant
\* punches landed in total and the other one the loser; with equal totals
\* the outcome is a draw and nobody is announced, whatever the accuracies,
\* head and body totals and ring control are.
C6_WinnerBySigLanded ==
    fn_step = "overall" /\ fn_out.overall[1].judgment # None =>
        LET j == fn_out.overall[1].judgment[1]
            a == fn_in.boxer_a
            b == fn_in.boxer_b
        IN /\ SigLanded(fn_in.df, a) > SigLanded(fn_in.df, b) =>
                j.kind = "winner" /\ j.winner = Some(a) /\ j.loser = Some(b)
           /\ SigLanded(fn_in.df, a) < SigLanded(fn_in.df, b) =>
                j.kind = "winner" /\ j.winner = Some(b) /\ j.loser = Some(a)
           /\ SigLanded(fn_in.df, a) = SigLanded(fn_in.df, b) =>
                j.kind = "draw" /\ j.winner = None /\ j.loser = None

\* C6 witness: equal totals of significant punches landed, different
\* accuracies and head totals, and a draw
C6_Witness ==
    /\ fn_step = "overall"
    /\ fn_out.overall[1].judgment # None
    /\ fn_out.overall[1].judgment[1].kind = "draw"
    /\ SigLanded(fn_in.df, fn_in.boxer_a) = SigLanded(fn_in.df, fn_in.boxer_b)
    /\ SigLanded(fn_in.df, fn_in.boxer_a) > 0
    /\ fn_out.overall[1].metrics[1].accuracy_delta # 0
    /\ fn_out.overall[1].metrics[1].sig_accuracy_delta # 0
    /\ fn_out.overall[1].metrics[1].head_landed_delta # 0

\* C7: the judgment is antisymmetric.  With the two competitors swapped
\* between stats_a and stats_b, the side that wins is swapped, that is, the
\* same competitor is announced winner and the same one loser, and a draw
\* stays a draw.
C7_Antisymmetric ==
    fn_step = "overall" /\ fn_out.overall[1].judgment # None =>
        LET j == fn_out.overall[1].judgment[1]
            swapped == OverallMatchAnalysis(fn_in.df, fn_in.boxer_b, fn_in.boxer_a)
        IN /\ swapped.judgment # None
           /\ (j.kind = "draw") <=> (swapped.judgment[1].kind = "draw")
           /\ (j.winner = Some(fn_in.boxer_a)) <=> (swapped.judgment[1].winner = Some(fn_in.boxer_a))
           /\ (j.winner = Some(fn_in.boxer_b)) <=> (swapped.judgment[1].winner = Some(fn_in.boxer_b))
           /\ (j.loser = Some(fn_in.boxer_a)) <=> (swapped.judgment[1].loser = Some(fn_in.boxer_a))
           /\ (j.loser = Some(fn_in.boxer_b)) <=> (swapped.judgment[1].loser = Some(fn_in.boxer_b))

\* C7 witness: the competitor given as stats_b wins, so that after the swap
\* the winning side is stats_a
C7_Witness ==
    /\ fn_step = "overall"
    /\ fn_out.overall[1].judgment # None
    /\ fn_out.overall[1].judgment[1].winner = Some(fn_in.boxer_b)
    /\ fn_out.overall[1].judgment[1].loser = Some(fn_in.boxer_a)
    /\ SigLanded(fn_in.df, fn_in.boxer_a) > 0

\* the rows of the selected dataset's file, a column that the file lacks
\* being 0
LoadedRows ==
    [ i \in 1..Len(files[selected_dataset_key[1]].rows) |->
        [ c \in Columns |-> IF c \in files[selected_dataset_key[1]].columns
                            THEN files[selected_dataset_key[1]].rows[i][c] ELSE 0 ] ]

\* the indices of the loaded rows of boxer in the round chosen
RoundRowsOf(boxer, round) ==
    { i \in RowsOf(LoadedRows, boxer) : round = All_Rounds \/ LoadedRows[i]["Round"] = round }

\* the row of the table shown holds the totals and accuracies of the rows I
RowIsOver(row, I) ==
    /\ row.total_punches_thrown = SumAt(LoadedRows, I, "Punches Thrown")
    /\ row.total_punches_landed = SumAt(LoadedRows, I, "Punches Landed")
    /\ row.total_sig_punches_thrown = SumAt(LoadedRows, I, "Significant Punches Thrown")
    /\ row.total_sig_punches_landed = SumAt(LoadedRows, I, "Significant Punches Landed")
    /\ row.total_head_punches_landed = SumAt(LoadedRows, I, "Head Punches Landed")
    /\ row.total_body_punches_landed = SumAt(LoadedRows, I, "Body Punches Landed")
    /\ IsRoundedPct(row.punch_accuracy_pct, SumAt(LoadedRows, I, "Punches Landed"),
                    SumAt(LoadedRows, I, "Punches Thrown"))
    /\ IsRoundedPct(row.sig_punch_accuracy_pct, SumAt(LoadedRows, I, "Significant Punches Landed"),
                    SumAt(LoadedRows, I, "Significant Punches Thrown"))

\* the judgment shown is that of the rows of the round chosen
JudgmentIsOver(j, round) ==
    LET sig_a == SumAt(LoadedRows, RoundRowsOf(boxer_a[1], round), "Significant Punches Landed")
        sig_b == SumAt(LoadedRows, RoundRowsOf(boxer_b[1], round), "Significant Punches Landed")
    IN /\ sig_a > sig_b => j.winner = Some(boxer_a[1]) /\ j.loser = Some(boxer_b[1])
       /\ sig_a < sig_b => j.winner = Some(boxer_b[1]) /\ j.loser = Some(boxer_a[1])
       /\ sig_a = sig_b => j.kind = "draw"

\* the overall analysis shown is that of the selected pair over the rows of
\* the round chosen
AnalysisIsOver(round) ==
    /\ view.analysis.table # None
    /\ \A x \in { boxer_a[1], boxer_b[1] } :
         /\ Cardinality(TableRows(view.analysis.table[1], x)) = 1
         /\ \A row \in TableRows(view.analysis.table[1], x) : RowIsOver(row, RoundRowsOf(x, round))
    /\ view.analysis.metrics[1].sig_landed_a =
         SumAt(LoadedRows, RoundRowsOf(boxer_a[1], round), "Significant Punches Landed")
    /\ view.analysis.metrics[1].sig_landed_b =
         SumAt(LoadedRows, RoundRowsOf(boxer_b[1], round), "Significant Punches Landed")
    /\ JudgmentIsOver(view.analysis.judgment[1], round)

\* a pair and a round are selected
PairSelected == app_mode = Individual /\ selected_round # None

\* C8 as stated: after any selections of dataset, pair and round, the
\* aggregate statistics shown (totals, accuracies, judgment) are those of the
\* chosen subset of rounds: all rounds of the pair for "All Rounds", only the
\* records of the round for a specific round (checked where both boxers of
\* the pair have a record in the round).
C8_Original ==
    /\ PairSelected
    /\ RoundRowsOf(boxer_a[1], selected_round[1]) # {}
    /\ RoundRowsOf(boxer_b[1], selected_round[1]) # {}
    => AnalysisIsOver(selected_round[1])

\* C8 amended: after any selections of dataset, pair and round, the
\* aggregate statistics shown (totals, accuracies, judgment) are those of
\* all rounds of the currently selected pair, whatever the round filter is;
\* the round filter selects the raw round data shown only.
C8_AnalysisOverWholeMatch ==
    PairSelected =>
        /\ AnalysisIsOver(All_Rounds)
        /\ Len(view.calls) = 1
        /\ view.calls[1].boxer_a = boxer_a[1]
        /\ view.calls[1].boxer_b = boxer_b[1]
        /\ Len(view.calls[1].df_match) =
             Cardinality(RoundRowsOf(boxer_a[1], All_Rounds) \cup RoundRowsOf(boxer_b[1], All_Rounds))
        /\ { view.raw[i] : i \in 1..Len(view.raw) } =
             { LoadedRows[i] : i \in RoundRowsOf(boxer_a[1], selected_round[1])
                                     \cup RoundRowsOf(boxer_b[1], selected_round[1]) }

\* C8 witness: round 1 is selected, both boxers have a record in it, boxer A
\* has landed punches in a later round too, and the total shown for boxer A
\* is that of all rounds while the raw data is that of round 1
C8_Witness ==
    /\ PairSelected
    /\ selected_round = Some(1)
    /\ RoundRowsOf(boxer_a[1], 1) # {}
    /\ RoundRowsOf(boxer_b[1], 1) # {}
    /\ SumAt(LoadedRows, RoundRowsOf(boxer_a[1], All_Rounds), "Punches Landed")
         > SumAt(LoadedRows, RoundRowsOf(boxer_a[1], 1), "Punches Landed")
    /\ \A row \in TableRows(view.analysis.table[1], boxer_a[1]) :
         row.total_punches_landed = SumAt(LoadedRows, RoundRowsOf(boxer_a[1], All_Rounds), "Punches Landed")
    /\ Len(view.raw) = 2

\* the indices of the rows of the pair given to the page in the round chosen
PageRoundRows ==
    { i \in RowsOf(fn_in.df, fn_in.boxer_a) \cup RowsOf(fn_in.df, fn_in.boxer_b) :
        fn_in.df[i]["Round"] = fn_out.page[1].sel.selected_round[1] }

\* C9: a round number that matches no record of the filtered data gives an
\* empty subset; for it the page shows the notice "No data available for
\* Round" instead of the charts of the round, and the aggregates shown are
\* not made of zero rows: the one call of calculate_match_aggregates gets a
\* frame with rows and every row of the table shown stands for at least one
\* record.  With a record in the round the charts of the round are drawn.
C9_EmptyRoundIsNoData ==
    fn_step = "round" /\ fn_out.page[1].sel.selected_round # Some(All_Rounds) =>
        LET page == fn_out.page[1].view
        IN /\ PageRoundRows = {} =>
                /\ page.raw = << >>
                /\ page.round_view.kind = "No data available for Round"
                /\ page.round_view.df = << >>
                /\ page.charts = << >>
                /\ \A i \in 1..Len(page.calls) : page.calls[i].df_match # << >>
                /\ page.analysis.table # None =>
                     \A i \in 1..Len(page.analysis.table[1]) :
                        page.analysis.table[1][i].avg_ring_control.count > 0
           /\ PageRoundRows # {} =>
                /\ page.round_view.kind = "Statistics for Round"
                /\ Len(page.round_view.df) = Cardinality(PageRoundRows)

\* C9 witness: round 2 is chosen for a frame whose records are all of round
\* 1; the notice is shown and the overall analysis is that of the records
C9_Witness ==
    /\ fn_step = "round"
    /\ fn_out.page[1].sel.selected_round = Some(2)
    /\ PageRoundRows = {}
    /\ fn_out.page[1].view.round_view.kind = "No data available for Round"
    /\ fn_out.page[1].view.raw = << >>
    /\ fn_out.page[1].view.analysis.table # None
    /\ Len(fn_out.page[1].view.calls[1].df_match) >= 2

\* the registered pair of the selected dataset's label
RegisteredA(key) == DefaultNames(key)[1]

RegisteredB(key) == DefaultNames(key)[2]

\* the first of the sorted competitors that is not the one given
FirstOther(boxers, boxer) == boxers[CHOOSE i \in 1..Len(boxers) :
                                       boxers[i] # boxer /\ \A j \in 1..(i - 1) : boxers[j] = boxer]

\* the registered boxer A if it is among the competitors, else the first one
ExpectedDefaultA(boxers, key) ==
    IF InSeq(RegisteredA(key), boxers) THEN RegisteredA(key) ELSE boxers[1]

\* the registered boxer B if it is among the competitors and is not boxer A,
\* else the first competitor that is not boxer A
ExpectedDefaultB(boxers, key) ==
    IF InSeq(RegisteredB(key), boxers) /\ RegisteredB(key) # ExpectedDefaultA(boxers, key)
    THEN RegisteredB(key)
    ELSE FirstOther(boxers, ExpectedDefaultA(boxers, key))

\* a step that shows the boxer selectboxes of a dataset anew, so that both
\* hold their defaults: the view or the dataset has been chosen
ShowsDefaults ==
    /\ app_mode' = Individual
    /\ app_mode # Individual \/ selected_dataset_key' # selected_dataset_key
    /\ Len(view'.boxers) >= 2

MissingRequired(file) ==
    { "Round", "Boxer", "Punches Thrown", "Punches Landed",
      "Significant Punches Thrown", "Significant Punches Landed" } \ file.columns

\* a file that is there and parses but lacks a required column
LacksRequired(file) == file.exists /\ file.parses /\ MissingRequired(file) # {}

\* a file whose load fails
LoadFails(file) == ~file.exists \/ ~file.parses \/ MissingRequired(file) # {}

\* the datasets the last run of the script has loaded
LoadedKeys ==
    IF app_mode = Comparison THEN DatasetKeys
    ELSE IF selected_dataset_key # None THEN { selected_dataset_key[1] } ELSE {}

\* the messages of st.error shown
ErrorsShown == { view.errors[i] : i \in 1..Len(view.errors) }

\* no aggregate is computed or shown for the dataset k
NoAggregateFor(k) ==
    /\ app_mode = Individual =>
         /\ view.calls = << >>
         /\ view.analysis.table = None
         /\ view.analysis.metrics = None
         /\ view.analysis.judgment = None
         /\ view.raw = << >>
    /\ app_mode = Comparison =>
         /\ \A i \in 1..Len(view.all_fight_data) : view.all_fight_data[i].fight_name # k
         /\ Len(view.calls) <= Cardinality({ k2 \in DatasetKeys : ~LoadFails(files[k2]) })

\* what C11 says of a dataset but for the columns that the message lists
LoadFailureOf(k) ==
    /\ LoadFails(files[k]) =>
         /\ NoAggregateFor(k)
         /\ Len(view.errors) = Cardinality({ k2 \in LoadedKeys : LoadFails(files[k2]) })
    /\ LacksRequired(files[k]) =>
         \E m \in ErrorsShown : m.text = "CSV file missing required columns. Need at least"
    /\ ~files[k].exists =>
         \E m \in ErrorsShown : m.text = "Error: The file was not found"
    /\ (\A k2 \in LoadedKeys : files[k2].exists) =>
         \A m \in ErrorsShown : m.text # "Error: The file was not found"
    /\ (\A k2 \in LoadedKeys : ~LacksRequired(files[k2])) =>
         \A m \in ErrorsShown : m.text # "CSV file missing required columns. Need at least"

\* C11 as stated: load_data fails whenever one of the six required columns
\* is missing, the message names the missing columns, it is another message
\* than that of a file not found, and after a load failure no aggregate is
\* computed for the dataset.
C11_Original ==
    \A k \in LoadedKeys :
        /\ LoadFailureOf(k)
        /\ LacksRequired(files[k]) =>
             \E m \in ErrorsShown : m.columns = MissingRequired(files[k])

\* C11 amended: load_data fails whenever one of the six required columns is
\* missing, the message lists all six required columns (the missing ones
\* among them, whichever they are), it is another message than that of a
\* file not found, and after a load failure no aggregate is computed for the
\* dataset.
C11_LoadFailure ==
    \A k \in LoadedKeys :
        /\ LoadFailureOf(k)
        /\ LacksRequired(files[k]) =>
             \E m \in ErrorsShown :
                /\ m.text = "CSV file missing required columns. Need at least"
                /\ m.columns = { "Round", "Boxer", "Punches Thrown", "Punches Landed",
                                 "Significant Punches Thrown", "Significant Punches Landed" }
                /\ MissingRequired(files[k]) \subseteq m.columns

\* C11 witness: in the comparison the first dataset is aggregated and the
\* second, whose file lacks only the column Punches Landed, shows the message
\* and has no entry
C11_Witness ==
    /\ app_mode = Comparison
    /\ MissingRequired(files[available_datasets[2]]) = { "Punches Landed" }
    /\ Len(files[available_datasets[2]].rows) > 0
    /\ Len(view.errors) = 1
    /\ view.errors[1].text = "CSV file missing required columns. Need at least"
    /\ Len(view.calls) = 1
    /\ Len(view.all_fight_data) = 1
    /\ view.all_fight_data[1].fight_name = available_datasets[1]

\* the frame of the dataset k: its file's rows, a column that the file lacks
\* being 0
FrameOf(k) ==
    [ i \in 1..Len(files[k].rows) |->
        [ c \in Columns |-> IF c \in files[k].columns THEN files[k].rows[i][c] ELSE 0 ] ]

\* the distinct competitors of the dataset k (a missing cell is none)
CompetitorsOf(k) == { FrameOf(k)[i]["Boxer"] : i \in 1..Len(FrameOf(k)) } \ {NaN}

\* the dataset k is loaded and has fewer than two distinct competitors
TooFewCompetitors(k) == ~LoadFails(files[k]) /\ Cardinality(CompetitorsOf(k)) < 2

\* C12: when a loaded dataset has fewer than two distinct competitors,
\* calculate_match_aggregates is never called for it, in both views, and a
\* not-enough-data notice is shown instead of statistics.
C12_Original ==
    \A k \in LoadedKeys : TooFewCompetitors(k) =>
        /\ \A i \in 1..Len(view.calls) : view.calls[i].df_match # FrameOf(k)
        /\ view.exception = FALSE
        /\ app_mode = Individual =>
             /\ view.sidebar \in { "Not enough boxers in the data for comparison",
                                   "Only one boxer found in the data" }
             /\ view.analysis.table = None
        /\ app_mode = Comparison =>
             /\ view.notice = "No fight data available for comparison"
             /\ \A i \in 1..Len(view.all_fight_data) : view.all_fight_data[i].fight_name # k

\* the round numbers of the records of the two selected competitors
RoundsOfPair ==
    { LoadedRows[i]["Round"] : i \in RoundRowsOf(boxer_a[1], All_Rounds)
                                     \cup RoundRowsOf(boxer_b[1], All_Rounds) }

\* the options of the round slider are "All Rounds" and then the rounds of
\* the pair, each once and ascending, and the slider's value is one of them
RoundOptionsOfPair ==
    PairSelected =>
        /\ Len(view.round_options) = 1 + Cardinality(RoundsOfPair)
        /\ view.round_options[1] = All_Rounds
        /\ \A i \in 2..Len(view.round_options) : view.round_options[i] \in RoundsOfPair
        /\ \A i, j \in 2..Len(view.round_options) :
              i < j => view.round_options[i] < view.round_options[j]
        /\ InSeq(selected_round[1], view.round_options)

\* C13: the round selector offers the sentinel "All Rounds" followed by
\* every distinct round number of the records of the two selected
\* competitors, each once and ascending, and no other round; and when the
\* selector is first shown for a dataset its selection is "All Rounds".
C13_RoundOptions ==
    /\ []RoundOptionsOfPair
    /\ [][ShowsDefaults => selected_round' = Some(All_Rounds)]_vars

\* C13 witness: the file has a record of round 2, of neither selected
\* competitor, and the selector offers "All Rounds" and round 1 only
C13_Witness ==
    /\ PairSelected
    /\ \E i \in 1..Len(LoadedRows) : LoadedRows[i]["Round"] = 2
    /\ RoundsOfPair = {1}
    /\ view.round_options = << All_Rounds, 1 >>
    /\ selected_round = Some(All_Rounds)

\* C15: in Individual Fight Analysis, whenever calculate_match_aggregates is
\* called, after whatever selections of dataset and boxers and with
\* whatever defaults, it is called once, for the selected boxer A and boxer
\* B, and these are two distinct competitors that both have records in the
\* loaded data and in the frame passed.
C15_DistinctPresentPair ==
    app_mode = Individual /\ view.calls # << >> =>
        /\ Len(view.calls) = 1
        /\ boxer_a = Some(view.calls[1].boxer_a)
        /\ boxer_b = Some(view.calls[1].boxer_b)
        /\ view.calls[1].boxer_a # view.calls[1].boxer_b
        /\ view.calls[1].boxer_a \in CompetitorsOf(selected_dataset_key[1])
        /\ view.calls[1].boxer_b \in CompetitorsOf(selected_dataset_key[1])
        /\ RowsOf(view.calls[1].df_match, view.calls[1].boxer_a) # {}
        /\ RowsOf(view.calls[1].df_match, view.calls[1].boxer_b) # {}

\* C15 witness: the registered boxer A (Gervonta Davis) is missing and the
\* registered boxer B (Hector Luis Garcia) is the first of the list, so both
\* default indices resolve to 0; the call is made for Garcia and the next
C15_Witness ==
    /\ app_mode = Individual
    /\ selected_dataset_key = Some("Real Fight: Davis vs Garcia (Jan 2023)")
    /\ Len(view.boxers) >= 2
    /\ view.boxers[1] = "Hector Luis Garcia"
    /\ Len(view.calls) = 1
    /\ view.calls[1].boxer_a = "Hector Luis Garcia"
    /\ view.calls[1].boxer_b = view.boxers[2]

\* the optional columns that the file of the dataset k lacks
MissingOptional(k) ==
    { "Ring Control %", "Head Punches Landed", "Body Punches Landed",
      "Jabs Landed", "Power Punches Landed" } \ files[k].columns

\* the indices of the loaded rows of the selected pair in the selected round
FilteredSubset ==
    RoundRowsOf(boxer_a[1], selected_round[1]) \cup RoundRowsOf(boxer_b[1], selected_round[1])

\* a figure draws a value that is not 0 (its data are tuples that start with
\* the boxer's name)
DrawsNonZero(fig) == \E i \in 1..Len(fig.data) : \E j \in 2..Len(fig.data[i]) : fig.data[i][j] # 0

\* the charts shown for the sums of the optional columns over the filtered
\* subset, a column that the file lacks counting as 0
ChartsDegrade ==
    LET ring == SumAt(LoadedRows, FilteredSubset, "Ring Control %")
        head == SumAt(LoadedRows, FilteredSubset, "Head Punches Landed")
        body == SumAt(LoadedRows, FilteredSubset, "Body Punches Landed")
    IN /\ Len(view.charts) = 3
       /\ ring = 0 <=> view.charts[2].kind = "empty"
       /\ ring = 0 => view.charts[2].data = << >>
       /\ selected_round # Some(All_Rounds) =>
            /\ ring # 0 => view.charts[2].kind = "pie" /\ DrawsNonZero(view.charts[2])
            /\ (head = 0 /\ body = 0) <=>
                 /\ view.charts[3].title = "Significant Punches Landed"
                 /\ view.charts[3].caption # "none"
            /\ (head # 0 \/ body # 0) <=>
                 /\ view.charts[3].title = "Significant Punches Landed (Head vs Body)"
                 /\ DrawsNonZero(view.charts[3])

\* C14: a missing optional column never makes load_data fail, it is 0 in
\* every record loaded; and a ring-control column, or the head and body
\* columns, whose sum over the filtered subset is 0 are handled like absent
\* ones: the ring-control chart is the "data not available" placeholder and
\* the head/body chart is replaced by the plain chart of significant
\* punches, so that no such chart is drawn of zeros only.
C14_OptionalColumns ==
    /\ \A k \in LoadedKeys : ~LoadFails(files[k]) /\ app_mode = Individual => view.errors = << >>
    /\ Len(view.errors) = Cardinality({ k \in LoadedKeys : LoadFails(files[k]) })
    /\ PairSelected =>
         /\ \A i \in 1..Len(view.raw) : \A c \in MissingOptional(selected_dataset_key[1]) :
               view.raw[i][c] = 0
         /\ \A i \in 1..Len(view.calls[1].df_match) : \A c \in MissingOptional(selected_dataset_key[1]) :
               view.calls[1].df_match[i][c] = 0
         /\ FilteredSubset # {} => ChartsDegrade

\* C14 witness: the file of the selected dataset has the six required
\* columns only; it is loaded, round 1 of its pair is shown with zeros in
\* the optional columns, the ring-control placeholder and the plain chart
C14_Witness ==
    /\ PairSelected
    /\ selected_round = Some(1)
    /\ MissingOptional(selected_dataset_key[1]) =
         { "Ring Control %", "Head Punches Landed", "Body Punches Landed",
           "Jabs Landed", "Power Punches Landed" }
    /\ Len(view.raw) = 2
    /\ view.raw[1]["Ring Control %"] = 0
    /\ Len(view.charts) = 3
    /\ view.charts[2].kind = "empty"
    /\ view.charts[3].title = "Significant Punches Landed"
    /\ view.analysis.table # None

\* a record of the generator keeps the relations between its columns
GenRecordOk(r) ==
    /\ r["Punches Landed"] <= r["Punches Thrown"]
    /\ r["Significant Punches Landed"] <= r["Significant Punches Thrown"]
    /\ r["Significant Punches Landed"] <= r["Punches Landed"]
    /\ r["Head Punches Landed"] >= 0
    /\ r["Body Punches Landed"] >= 0
    /\ r["Head Punches Landed"] + r["Body Punches Landed"] = r["Significant Punches Landed"]
    /\ r["Jabs Landed"] >= 0
    /\ r["Jabs Landed"] + r["Power Punches Landed"] = r["Punches Landed"]

\* C16: every record that generate_boxing_data returns for two distinct
\* names has Punches Landed <= Punches Thrown, Significant Punches Landed <=
\* Significant Punches Thrown and <= Punches Landed, Head + Body =
\* Significant Punches Landed with both non-negative, Jabs >= 0 with Jabs +
\* Power = Punches Landed; there is exactly one record per round 1..num_rounds
\* and boxer; and in every round the two Ring Control % values sum to 100.
C16_GeneratedRecords ==
    fn_step = "returned" =>
        LET df == fn_out.data
        IN /\ \A i \in 1..Len(df) : GenRecordOk(df[i])
           /\ Len(df) = 2 * fn_in.num_rounds
           /\ \A round_num \in 1..fn_in.num_rounds :
                /\ \A boxer \in { fn_in.boxer_a_name, fn_in.boxer_b_name } :
                     Cardinality({ i \in 1..Len(df) :
                                     df[i]["Round"] = round_num /\ df[i]["Boxer"] = boxer }) = 1
                /\ \A i, j \in 1..Len(df) :
                     /\ df[i]["Round"] = round_num /\ df[i]["Boxer"] = fn_in.boxer_a_name
                     /\ df[j]["Round"] = round_num /\ df[j]["Boxer"] = fn_in.boxer_b_name
                     => df[i]["Ring Control %"] + df[j]["Ring Control %"] = 1000
           /\ \A i \in 1..Len(df) : df[i]["Round"] \in 1..fn_in.num_rounds

\* C16 witness: two rounds are returned, in one record the significant
\* punches landed were cut down to those thrown, and the ring control of
\* boxer B is not the one drawn for it
C16_Witness ==
    /\ fn_step = "returned"
    /\ fn_in.num_rounds = 2
    /\ Len(fn_out.data) = 4
    /\ \E i \in 1..4 :
          /\ fn_out.data[i]["Significant Punches Landed"] = fn_out.data[i]["Significant Punches Thrown"]
          /\ fn_out.data[i]["Punches Landed"] > fn_out.data[i]["Significant Punches Thrown"]
    /\ fn_out.data[1]["Ring Control %"] = 300
    /\ fn_out.data[2]["Ring Control %"] = 700
    /\ fn_out.data[3]["Ring Control %"] + fn_out.data[4]["Ring Control %"] = 1000

\* a table that cannot be parsed: no rows, or no DAVIS/GARCIA row
CannotBeParsed(table) ==
    \/ table = << >>
    \/ ~\E n \in 2..Len(table) : table[n].td # << >> /\ table[n].td[1] \in { "DAVIS", "GARCIA" }

\* the malformed pages that the claim lists
ScrapeMustFail ==
    \/ fn_in.fetch # "ok"
    \/ Len(fn_in.tables) < 3
    \/ \E i \in 1..3 : CannotBeParsed(fn_in.tables[i])

\* the texts of the cell of a boxer and a round in a table: those of the
\* boxer's last row, none if the row or the cell is missing
CellTextOf(table, boxer_key, round_num) ==
    LET ns == { n \in 2..Len(table) : table[n].td # << >> /\ table[n].td[1] = boxer_key }
    IN IF ns = {} THEN None
       ELSE LET last == CHOOSE n \in ns : \A m \in ns : m <= n
            IN IF round_num + 1 <= Len(table[last].td)
               THEN Some(table[last].td[round_num + 1]) ELSE None

\* the numbers a cell stands for: landed/thrown, 0 and 0 if it is missing or
\* does not begin with number/number
LandedThrown(cell) ==
    IF cell = None \/ DigitRun(cell[1], 1) = 0 \/ DigitRun(cell[1], 1) + 1 > Len(cell[1])
    THEN << 0, 0 >>
    ELSE IF cell[1][DigitRun(cell[1], 1) + 1] # "/" \/ DigitRun(cell[1], DigitRun(cell[1], 1) + 2) = 0
    THEN << 0, 0 >>
    ELSE << int(SubSeq(cell[1], 1, DigitRun(cell[1], 1))),
            int(SubSeq(cell[1], DigitRun(cell[1], 1) + 2,
                       DigitRun(cell[1], 1) + 1 + DigitRun(cell[1], DigitRun(cell[1], 1) + 2))) >>

\* the largest number among the headers of the first table
HeaderRounds ==
    LET numbers == { int(fn_in.tables[1][1].th[i]) :
                       i \in { j \in 1..Len(fn_in.tables[1][1].th) : isdigit(fn_in.tables[1][1].th[j]) } }
    IN IF numbers = {} THEN 0 ELSE CHOOSE n \in numbers : \A m \in numbers : m <= n

\* the frame has the record of Davis and then that of Garcia for every round
\* 1 .. num_rounds, with the numbers of the cells of the three tables
ScrapedFrameOk(df) ==
    /\ Len(df) = 2 * HeaderRounds
    /\ \A r \in 1..HeaderRounds : \A t \in 1..2 :
         LET rec == df[2 * (r - 1) + t]
             key == IF t = 1 THEN "DAVIS" ELSE "GARCIA"
         IN /\ rec["Round"] = r
            /\ rec["Boxer"] = (IF t = 1 THEN "Gervonta Davis" ELSE "Hector Luis Garcia")
            /\ rec["Punches Landed"] = LandedThrown(CellTextOf(fn_in.tables[1], key, r))[1]
            /\ rec["Punches Thrown"] = LandedThrown(CellTextOf(fn_in.tables[1], key, r))[2]
            /\ rec["Jabs Landed"] = LandedThrown(CellTextOf(fn_in.tables[2], key, r))[1]
            /\ rec["Significant Punches Landed"] = LandedThrown(CellTextOf(fn_in.tables[3], key, r))[1]
            /\ rec["Significant Punches Thrown"] = LandedThrown(CellTextOf(fn_in.tables[3], key, r))[2]

\* what the scraper returns when it returns: None and a reported error on the
\* malformed pages, the frame otherwise
ScrapeReturnsAsStated ==
    fn_step = "returned" =>
        IF ScrapeMustFail
        THEN fn_out.result = None /\ fn_out.printed # << >>
        ELSE fn_out.result # None /\ ScrapedFrameOk(fn_out.result[1])

\* C17 (as stated): scrape_davis_garcia_stats never raises on malformed pages;
\* when the fetch fails, fewer than three tables are found or one of the three
\* tables cannot be parsed (no rows, or no DAVIS/GARCIA row) it reports the
\* error and returns None; otherwise it returns exactly two records (Davis and
\* Garcia) for each round 1..num_rounds, with 0 landed / 0 thrown for every
\* cell that is missing or not of the form landed/thrown.
C17_Original ==
    /\ fn_out.raised = "none"
    /\ ScrapeReturnsAsStated

====
